---- MODULE Spec2Model ----
(***************************************************************************)
(* dbdb-rust: an immutable binary search tree kept in an append-only file. *)
(*                                                                         *)
(* The file is a superblock (bincode Meta { root_addr }) followed by a data*)
(* region of JSON records.  A record is modelled as the cells serde_json   *)
(* emits for it: a value record is one "str" cell, a node record is a      *)
(* "head" cell (key, value_addr) followed by a "tail" cell (left_addr,     *)
(* right_addr, size).  A cell stands at offset SUPERBLOCK + its index, so  *)
(* addresses are offsets and a record written half is a "head" alone.      *)
(*                                                                         *)
(* Option<T> is a sequence of length at most one: <<>> is None, <<x>> is   *)
(* Some(x).  Result<T> is a record with an ok field.  Rc<RefCell<agent>>   *)
(* is the agent's value: a handle keeps only its current root, and within  *)
(* one tree no agent is referenced twice.                                  *)
(***************************************************************************)
EXTENDS Integers, Sequences, FiniteSets, TLC

VARIABLES
    file,    \* the backing file: [len, meta, data]
    lock,    \* owner of the advisory exclusive lock on the file, 0 when free
    hstate,  \* per handle: "closed" (no LogicalTree), "ready", or a step of commit
    guard,   \* per handle: LogicalTree.guard.is_some()
    tree,    \* per handle: BinaryTree.root
    wbuf,    \* per handle: cells a running commit has still to append
    crashes  \* number of commits cut short by a crash or an I/O error so far

vars == <<file, lock, hstate, guard, tree, wbuf, crashes>>

\* ------------------------------------------------------------------ bounds
\* The file's data region grows to at most MaxCells cells.
MaxCells == 8
\* ... and to at most MaxStepCells cells when commit runs step by step.
MaxStepCells == 6
\* At most MaxCrashes commits are cut short, by a crash or by an I/O error.
MaxCrashes == 1

\* Two handles on the one file, two keys (1 < 2), two values.
Handles == {1, 2}
Keys == {1, 2}
Vals == {1, 2}

\* ---------------------------------------------------------------- storage
SUPERBLOCK == 512

\* A file nobody has opened yet: tempfile creates it empty.
EmptyFile == [len |-> 0, meta |-> [tag |-> 0, root_addr |-> 0], data |-> <<>>]

\* File::seek(SeekFrom::End(0)): the new cursor, the offset of the file's end.
seek_end(f) == f.len

\* File::write with the cursor at pos: the cells stand at pos and after it, in
\* the place of what the file had there, and the file grows when they pass its
\* end.  Cells written inside the superblock leave no Meta to decode (tag 2).
file_write(f, pos, cells) ==
    IF pos < SUPERBLOCK
    THEN [f EXCEPT !.meta = [tag |-> 2, root_addr |-> 0]]
    ELSE LET k == pos - SUPERBLOCK IN
         [f EXCEPT !.data = SubSeq(@, 1, k) \o cells
                               \o SubSeq(@, k + Len(cells) + 1, Len(@)),
                   !.len = IF pos + Len(cells) > @ THEN pos + Len(cells) ELSE @]

\* Fault variant of storage_write: the write goes where the cursor stands.
write_at_cursor(f, pos, cells) == file_write(f, pos, cells)

\* impl Write for FileStorage, the cursor an earlier seek or read has left
\* being pos: seek to the end, then write there.
storage_write(f, pos, cells) == file_write(f, seek_end(f), cells)

\* impl Write for FileStorage: seek to the end, then write there.
write(f, cells) ==
    [f EXCEPT !.data = @ \o cells, !.len = @ + Len(cells)]

\* FileStorage::get_write_addr: the offset of the file's end.
get_write_addr(f) == f.len

\* bincode of Meta { root_addr: Option<u64> }: a tag byte, then (for Some) the u64.
\* Meta is Some(addr) unless addr is 0.
commit_root_addr(f, addr) ==
    IF addr = 0
    THEN [f EXCEPT !.meta.tag = 0]
    ELSE [f EXCEPT !.meta = [tag |-> 1, root_addr |-> addr]]

\* Fault variant of get_root_addr: the u64 is decoded whatever the tag byte.
get_root_addr_untagged(f) ==
    IF f.meta.root_addr = 0 THEN <<>> ELSE <<f.meta.root_addr>>

\* FileStorage::get_root_addr: decode Meta at offset 0.
get_root_addr(f) ==
    IF f.meta.tag = 0 THEN <<>> ELSE <<f.meta.root_addr>>

\* FileStorage::ensure_superblock, run under the lock by FileStorage::new:
\* a file shorter than SUPERBLOCK gets SUPERBLOCK zero bytes appended at its end
\* and Meta { root_addr: None } written at offset 0.
ensure_superblock(f) ==
    IF f.len < SUPERBLOCK
    THEN commit_root_addr(
            [f EXCEPT !.len = @ + SUPERBLOCK,
                      !.meta = IF f.len = 0 THEN [tag |-> 0, root_addr |-> 0] ELSE @], 0)
    ELSE f

\* Fault variant of lock_free: the lock excludes nobody.
lock_never_held(l) == TRUE

\* FileStorageGuard::new: ExclusiveFlock::wait_lock returns once no other open
\* file holds the lock; l is the lock's owner, 0 for none.
lock_free(l) == l = 0

\* ------------------------------------------------------------------ codec
\* The cell at a byte offset, <<>> when the offset is inside the superblock
\* or at or past the end of the file.
CellAt(f, addr) ==
    IF addr >= SUPERBLOCK /\ addr - SUPERBLOCK + 1 <= Len(f.data)
    THEN <<f.data[addr - SUPERBLOCK + 1]>>
    ELSE <<>>

\* SerdeJson::to_writer of a String
ToWriterString(s) == << [t |-> "str", s |-> s] >>

\* SerdeJson::from_reader::<String> after seek(addr)
FromReaderString(f, addr) ==
    LET c == CellAt(f, addr) IN
    IF c # <<>> /\ c[1].t = "str"
    THEN [ok |-> TRUE, s |-> c[1].s]
    ELSE [ok |-> FALSE, s |-> 0]

\* SerdeJson::to_writer of a TreeNodeHD
ToWriterNodeHD(hd) ==
    << [t |-> "head", key |-> hd.key, value_addr |-> hd.value_addr],
       [t |-> "tail", left_addr |-> hd.left_addr, right_addr |-> hd.right_addr,
        size |-> hd.size] >>

NoHD == [key |-> 0, value_addr |-> <<>>, left_addr |-> <<>>, right_addr |-> <<>>, size |-> 0]

\* SerdeJson::from_reader::<TreeNodeHD> after seek(addr)
FromReaderNodeHD(f, addr) ==
    LET c == CellAt(f, addr)
        d == CellAt(f, addr + 1)
    IN  IF c # <<>> /\ d # <<>> /\ c[1].t = "head" /\ d[1].t = "tail"
        THEN [ok |-> TRUE,
              hd |-> [key |-> c[1].key, value_addr |-> c[1].value_addr,
                      left_addr |-> d[1].left_addr, right_addr |-> d[1].right_addr,
                      size |-> d[1].size]]
        ELSE [ok |-> FALSE, hd |-> NoHD]

\* ----------------------------------------------------------------- agents
\* Agent::new for StringAgent and TreeNodeAgent
AgentNew(inner, addr) == [inner |-> inner, addr |-> addr]

\* Fault variant of TreeNodeNew: the size of a new node starts at 0.
TreeNodeNewEmpty(key, value) ==
    [key |-> key, size |-> 0, value_agent |-> AgentNew(<<value>>, <<>>),
     left_agent |-> <<>>, right_agent |-> <<>>]

\* TreeNode::new
TreeNodeNew(key, value) ==
    [key |-> key, size |-> 1, value_agent |-> AgentNew(<<value>>, <<>>),
     left_agent |-> <<>>, right_agent |-> <<>>]

\* impl From<TreeNodeHD> for TreeNode
TreeNodeFromHD(hd) ==
    [key |-> hd.key, size |-> hd.size,
     value_agent |-> AgentNew(<<>>, hd.value_addr),
     left_agent |-> IF hd.left_addr = <<>> THEN <<>>
                    ELSE <<AgentNew(<<>>, hd.left_addr)>>,
     right_agent |-> IF hd.right_addr = <<>> THEN <<>>
                     ELSE <<AgentNew(<<>>, hd.right_addr)>>]

\* Fault variant of TreeNodeHDFrom: only the addresses of loaded agents are kept.
TreeNodeHDFromLoaded(node) ==
    LET addr_of(a) == IF a.inner = <<>> THEN <<>> ELSE a.addr IN
    [key |-> node.key,
     value_addr |-> addr_of(node.value_agent),
     left_addr |-> IF node.left_agent = <<>> THEN <<>> ELSE addr_of(node.left_agent[1]),
     right_addr |-> IF node.right_agent = <<>> THEN <<>> ELSE addr_of(node.right_agent[1]),
     size |-> node.size]

\* impl From<&TreeNode> for TreeNodeHD
TreeNodeHDFrom(node) ==
    [key |-> node.key,
     value_addr |-> node.value_agent.addr,
     left_addr |-> IF node.left_agent = <<>> THEN <<>> ELSE node.left_agent[1].addr,
     right_addr |-> IF node.right_agent = <<>> THEN <<>> ELSE node.right_agent[1].addr,
     size |-> node.size]

\* StringAgent::get / get_mut: load the string on first use.
StringAgentGet(agent, f) ==
    IF agent.inner = <<>> /\ agent.addr # <<>>
    THEN LET r == FromReaderString(f, agent.addr[1]) IN
         IF r.ok THEN [ok |-> TRUE, agent |-> [agent EXCEPT !.inner = <<r.s>>]]
         ELSE [ok |-> FALSE, agent |-> agent]
    ELSE [ok |-> TRUE, agent |-> agent]

\* The children a record names stand before it in the file.  store writes no
\* other record unless it is retried after an error; a traversal through such
\* a record can come back to it and then never returns.
Descends(hd, addr) ==
    /\ hd.left_addr # <<>> => hd.left_addr[1] < addr
    /\ hd.right_addr # <<>> => hd.right_addr[1] < addr

\* TreeNodeAgent::load (get and get_mut are load, then the inner node); the
\* traversal that would not return is an error here.
load(agent, f) ==
    IF agent.inner = <<>> /\ agent.addr # <<>>
    THEN LET r == FromReaderNodeHD(f, agent.addr[1]) IN
         IF r.ok /\ Descends(r.hd, agent.addr[1]) THEN [ok |-> TRUE, agent |-> [agent EXCEPT !.inner = <<TreeNodeFromHD(r.hd)>>]]
         ELSE [ok |-> FALSE, agent |-> agent]
    ELSE [ok |-> TRUE, agent |-> agent]

\* Fault variant of StringAgentStore: the address is taken after the write.
StringAgentStoreAddrAfter(agent, f) ==
    IF agent.inner # <<>> /\ agent.addr = <<>>
    THEN LET g == write(f, ToWriterString(agent.inner[1])) IN
         [agent |-> [agent EXCEPT !.addr = <<get_write_addr(g)>>], file |-> g]
    ELSE [agent |-> agent, file |-> f]

\* StringAgent::store: the address is taken, then the record is appended.
StringAgentStore(agent, f) ==
    IF agent.inner # <<>> /\ agent.addr = <<>>
    THEN [agent |-> [agent EXCEPT !.addr = <<get_write_addr(f)>>],
          file |-> write(f, ToWriterString(agent.inner[1]))]
    ELSE [agent |-> agent, file |-> f]

\* Fault variant of store: a loaded node is written whether or not it has
\* an address.
RECURSIVE store_again(_, _)
store_again(agent, f) ==
    IF agent.inner # <<>>
    THEN LET node == agent.inner[1]
             v == StringAgentStore(node.value_agent, f)
             l == IF node.left_agent = <<>> THEN [agent |-> <<>>, file |-> v.file]
                  ELSE LET s == store_again(node.left_agent[1], v.file)
                       IN [agent |-> <<s.agent>>, file |-> s.file]
             r == IF node.right_agent = <<>> THEN [agent |-> <<>>, file |-> l.file]
                  ELSE LET s == store_again(node.right_agent[1], l.file)
                       IN [agent |-> <<s.agent>>, file |-> s.file]
             stored == [node EXCEPT !.value_agent = v.agent,
                                    !.left_agent = l.agent,
                                    !.right_agent = r.agent]
         IN [agent |-> [inner |-> <<stored>>, addr |-> <<get_write_addr(r.file)>>],
             file |-> write(r.file, ToWriterNodeHD(TreeNodeHDFrom(stored)))]
    ELSE [agent |-> agent, file |-> f]

\* TreeNodeAgent::store: value, left, right, then the node's own record.
RECURSIVE store(_, _)
store(agent, f) ==
    IF agent.inner # <<>> /\ agent.addr = <<>>
    THEN LET node == agent.inner[1]
             v == StringAgentStore(node.value_agent, f)
             l == IF node.left_agent = <<>> THEN [agent |-> <<>>, file |-> v.file]
                  ELSE LET s == store(node.left_agent[1], v.file)
                       IN [agent |-> <<s.agent>>, file |-> s.file]
             r == IF node.right_agent = <<>> THEN [agent |-> <<>>, file |-> l.file]
                  ELSE LET s == store(node.right_agent[1], l.file)
                       IN [agent |-> <<s.agent>>, file |-> s.file]
             stored == [node EXCEPT !.value_agent = v.agent,
                                    !.left_agent = l.agent,
                                    !.right_agent = r.agent]
         IN [agent |-> [inner |-> <<stored>>, addr |-> <<get_write_addr(r.file)>>],
             file |-> write(r.file, ToWriterNodeHD(TreeNodeHDFrom(stored)))]
    ELSE [agent |-> agent, file |-> f]

\* ------------------------------------------------------------ binary tree
\* BinaryTree::_find: descend from the agent, loading every node on the way.
\* root is the agent after the loads, found tells whether the key has a node.
RECURSIVE _find(_, _, _)
_find(key, agent, f) ==
    IF agent = <<>>
    THEN [ok |-> TRUE, found |-> FALSE, root |-> agent]
    ELSE LET ld == load(agent[1], f) IN
         IF ~ld.ok
         THEN [ok |-> FALSE, found |-> FALSE, root |-> agent]
         ELSE LET node == ld.agent.inner[1] IN
              IF key < node.key
              THEN LET r == _find(key, node.left_agent, f) IN
                   [ok |-> r.ok, found |-> r.found,
                    root |-> <<[ld.agent EXCEPT !.inner[1].left_agent = r.root]>>]
              ELSE IF key > node.key
              THEN LET r == _find(key, node.right_agent, f) IN
                   [ok |-> r.ok, found |-> r.found,
                    root |-> <<[ld.agent EXCEPT !.inner[1].right_agent = r.root]>>]
              ELSE [ok |-> TRUE, found |-> TRUE, root |-> <<ld.agent>>]

\* The value agent _find returns: the one of the node holding the key, on a
\* path that _find has loaded.
RECURSIVE ValueAgentOf(_, _)
ValueAgentOf(key, agent) ==
    LET node == agent[1].inner[1] IN
    IF key < node.key THEN ValueAgentOf(key, node.left_agent)
    ELSE IF key > node.key THEN ValueAgentOf(key, node.right_agent)
    ELSE node.value_agent

\* agent.borrow_mut() of that value agent: the tree with it replaced.
RECURSIVE WithValueAgent(_, _, _)
WithValueAgent(key, agent, va) ==
    LET node == agent[1].inner[1] IN
    IF key < node.key
    THEN <<[agent[1] EXCEPT !.inner[1].left_agent = WithValueAgent(key, node.left_agent, va)]>>
    ELSE IF key > node.key
    THEN <<[agent[1] EXCEPT !.inner[1].right_agent = WithValueAgent(key, node.right_agent, va)]>>
    ELSE <<[agent[1] EXCEPT !.inner[1].value_agent = va]>>

\* BinaryTree::find: _find, then load the value of the agent found.
find(key, root, f) ==
    LET r == _find(key, root, f) IN
    IF ~r.ok THEN [ok |-> FALSE, value |-> <<>>, root |-> r.root]
    ELSE IF ~r.found THEN [ok |-> TRUE, value |-> <<>>, root |-> r.root]
    ELSE LET g == StringAgentGet(ValueAgentOf(key, r.root), f) IN
         [ok |-> g.ok,
          value |-> IF g.ok THEN g.agent.inner ELSE <<>>,
          root |-> WithValueAgent(key, r.root, g.agent)]

\* Fault variant of _insert: a put on a key the tree holds counts as one
\* more key.
RECURSIVE _insert_counting(_, _, _, _)
_insert_counting(key, value, agent, f) ==
    IF agent = <<>>
    THEN [ok |-> TRUE, agent |-> AgentNew(<<TreeNodeNew(key, value)>>, <<>>), delta |-> 1]
    ELSE LET ld == load(agent[1], f) IN
         IF ~ld.ok
         THEN [ok |-> FALSE, agent |-> agent[1], delta |-> 0]
         ELSE LET node == ld.agent.inner[1] IN
              IF key < node.key
              THEN LET r == _insert_counting(key, value, node.left_agent, f) IN
                   IF ~r.ok THEN r
                   ELSE [ok |-> TRUE,
                         agent |-> AgentNew(<<[node EXCEPT !.left_agent = <<r.agent>>,
                                                            !.size = @ + r.delta]>>, <<>>),
                         delta |-> r.delta]
              ELSE IF key > node.key
              THEN LET r == _insert_counting(key, value, node.right_agent, f) IN
                   IF ~r.ok THEN r
                   ELSE [ok |-> TRUE,
                         agent |-> AgentNew(<<[node EXCEPT !.right_agent = <<r.agent>>,
                                                            !.size = @ + r.delta]>>, <<>>),
                         delta |-> r.delta]
              ELSE [ok |-> TRUE,
                    agent |-> AgentNew(<<[node EXCEPT !.value_agent =
                                                AgentNew(<<value>>, <<>>),
                                                      !.size = @ + 1]>>, <<>>),
                    delta |-> 1]

\* BinaryTree::_insert: a fresh unaddressed agent for every node on the path;
\* delta is the number of keys added.
RECURSIVE _insert(_, _, _, _)
_insert(key, value, agent, f) ==
    IF agent = <<>>
    THEN [ok |-> TRUE, agent |-> AgentNew(<<TreeNodeNew(key, value)>>, <<>>), delta |-> 1]
    ELSE LET ld == load(agent[1], f) IN
         IF ~ld.ok
         THEN [ok |-> FALSE, agent |-> agent[1], delta |-> 0]
         ELSE LET node == ld.agent.inner[1] IN
              IF key < node.key
              THEN LET r == _insert(key, value, node.left_agent, f) IN
                   IF ~r.ok THEN r
                   ELSE [ok |-> TRUE,
                         agent |-> AgentNew(<<[node EXCEPT !.left_agent = <<r.agent>>,
                                                            !.size = @ + r.delta]>>, <<>>),
                         delta |-> r.delta]
              ELSE IF key > node.key
              THEN LET r == _insert(key, value, node.right_agent, f) IN
                   IF ~r.ok THEN r
                   ELSE [ok |-> TRUE,
                         agent |-> AgentNew(<<[node EXCEPT !.right_agent = <<r.agent>>,
                                                            !.size = @ + r.delta]>>, <<>>),
                         delta |-> r.delta]
              ELSE [ok |-> TRUE,
                    agent |-> AgentNew(<<[node EXCEPT !.value_agent =
                                                AgentNew(<<value>>, <<>>)]>>, <<>>),
                    delta |-> 0]

\* Fault variant of _delmin: the minimum is handed back as the replacement
\* and stays in the subtree as well.
RECURSIVE _delmin_keeping(_, _)
_delmin_keeping(agent, f) ==
    IF agent = <<>>
    THEN [ok |-> TRUE, modified |-> <<>>, replace |-> <<>>]
    ELSE LET ld == load(agent[1], f) IN
         IF ~ld.ok
         THEN [ok |-> FALSE, modified |-> <<>>, replace |-> <<>>]
         ELSE LET node == ld.agent.inner[1] IN
              IF node.left_agent = <<>>
              THEN [ok |-> TRUE, modified |-> <<ld.agent>>, replace |-> <<ld.agent>>]
              ELSE LET r == _delmin_keeping(node.left_agent, f) IN
                   IF ~r.ok THEN r
                   ELSE [ok |-> TRUE,
                         modified |-> <<AgentNew(<<[node EXCEPT !.size = @ - 1,
                                                                !.left_agent = r.modified]>>,
                                                 <<>>)>>,
                         replace |-> r.replace]

\* BinaryTree::_delmin: (modified, replace) of the subtree's minimum.
RECURSIVE _delmin(_, _)
_delmin(agent, f) ==
    IF agent = <<>>
    THEN [ok |-> TRUE, modified |-> <<>>, replace |-> <<>>]
    ELSE LET ld == load(agent[1], f) IN
         IF ~ld.ok
         THEN [ok |-> FALSE, modified |-> <<>>, replace |-> <<>>]
         ELSE LET node == ld.agent.inner[1] IN
              IF node.left_agent = <<>>
              THEN [ok |-> TRUE, modified |-> node.right_agent, replace |-> <<ld.agent>>]
              ELSE LET r == _delmin(node.left_agent, f) IN
                   IF ~r.ok THEN r
                   ELSE [ok |-> TRUE,
                         modified |-> <<AgentNew(<<[node EXCEPT !.size = @ - 1,
                                                                !.left_agent = r.modified]>>,
                                                 <<>>)>>,
                         replace |-> r.replace]

\* Fault variant of _delete: with two children, the key of the right
\* subtree's minimum is moved up and the value of the deleted key is kept.
RECURSIVE _delete_stale(_, _, _)
_delete_stale(key, agent, f) ==
    IF agent = <<>>
    THEN [ok |-> TRUE, agent |-> <<>>]
    ELSE LET ld == load(agent[1], f) IN
         IF ~ld.ok
         THEN [ok |-> FALSE, agent |-> agent]
         ELSE LET node == ld.agent.inner[1]
                  new_node == [node EXCEPT !.size = @ - 1]
              IN
              IF key < node.key
              THEN LET r == _delete_stale(key, node.left_agent, f) IN
                   IF ~r.ok THEN r
                   ELSE [ok |-> TRUE,
                         agent |-> <<AgentNew(<<[new_node EXCEPT !.left_agent = r.agent]>>, <<>>)>>]
              ELSE IF key > node.key
              THEN LET r == _delete_stale(key, node.right_agent, f) IN
                   IF ~r.ok THEN r
                   ELSE [ok |-> TRUE,
                         agent |-> <<AgentNew(<<[new_node EXCEPT !.right_agent = r.agent]>>, <<>>)>>]
              ELSE IF node.left_agent # <<>> /\ node.right_agent # <<>>
              THEN LET m == _delmin(node.right_agent, f) IN
                   IF ~m.ok THEN [ok |-> FALSE, agent |-> agent]
                   ELSE IF m.replace = <<>>
                   THEN [ok |-> TRUE, agent |-> <<AgentNew(<<new_node>>, <<>>)>>]
                   ELSE LET r_node == m.replace[1].inner[1] IN
                        [ok |-> TRUE,
                         agent |-> <<AgentNew(<<[new_node EXCEPT
                                                    !.key = r_node.key,
                                                    !.right_agent = m.modified]>>, <<>>)>>]
              ELSE IF node.left_agent # <<>>
              THEN [ok |-> TRUE, agent |-> node.left_agent]
              ELSE [ok |-> TRUE, agent |-> node.right_agent]

\* BinaryTree::_delete: the subtree without the key, which it holds.
RECURSIVE _delete(_, _, _)
_delete(key, agent, f) ==
    IF agent = <<>>
    THEN [ok |-> TRUE, agent |-> <<>>]
    ELSE LET ld == load(agent[1], f) IN
         IF ~ld.ok
         THEN [ok |-> FALSE, agent |-> agent]
         ELSE LET node == ld.agent.inner[1]
                  new_node == [node EXCEPT !.size = @ - 1]
              IN
              IF key < node.key
              THEN LET r == _delete(key, node.left_agent, f) IN
                   IF ~r.ok THEN r
                   ELSE [ok |-> TRUE,
                         agent |-> <<AgentNew(<<[new_node EXCEPT !.left_agent = r.agent]>>, <<>>)>>]
              ELSE IF key > node.key
              THEN LET r == _delete(key, node.right_agent, f) IN
                   IF ~r.ok THEN r
                   ELSE [ok |-> TRUE,
                         agent |-> <<AgentNew(<<[new_node EXCEPT !.right_agent = r.agent]>>, <<>>)>>]
              ELSE IF node.left_agent # <<>> /\ node.right_agent # <<>>
              THEN LET m == _delmin(node.right_agent, f) IN
                   IF ~m.ok THEN [ok |-> FALSE, agent |-> agent]
                   ELSE IF m.replace = <<>>
                   THEN [ok |-> TRUE, agent |-> <<AgentNew(<<new_node>>, <<>>)>>]
                   ELSE LET r_node == m.replace[1].inner[1] IN
                        [ok |-> TRUE,
                         agent |-> <<AgentNew(<<[new_node EXCEPT
                                                    !.value_agent = r_node.value_agent,
                                                    !.key = r_node.key,
                                                    !.right_agent = m.modified]>>, <<>>)>>]
              ELSE IF node.left_agent # <<>>
              THEN [ok |-> TRUE, agent |-> node.left_agent]
              ELSE [ok |-> TRUE, agent |-> node.right_agent]

\* BinaryTree::change_view: the root becomes an unloaded agent at addr.
change_view(addr) == <<AgentNew(<<>>, <<addr>>)>>

\* BinaryTree::store (DBTree::store): write the root, return its address.
tree_store(root, f) ==
    IF root # <<>>
    THEN LET s == store(root[1], f) IN
         [root |-> <<s.agent>>, file |-> s.file, addr |-> s.agent.addr]
    ELSE [root |-> root, file |-> f, addr |-> <<>>]

\* Fault variant of insert: the new root is a copy of the whole tree, every
\* node of it in a new agent.
insert_rebuild(key, value, root, f) ==
    LET RECURSIVE rebuilt(_)
        rebuilt(agent) ==
            IF agent = <<>> THEN <<>>
            ELSE LET node == load(agent[1], f).agent.inner[1] IN
                 <<AgentNew(<<[node EXCEPT !.left_agent = rebuilt(node.left_agent),
                                           !.right_agent = rebuilt(node.right_agent)]>>,
                            <<>>)>>
        r == _insert(key, value, root, f)
    IN  IF r.ok THEN [ok |-> TRUE, root |-> rebuilt(<<r.agent>>)]
        ELSE [ok |-> FALSE, root |-> root]

\* BinaryTree::insert: the new root on success, the old one on an error.
insert(key, value, root, f) ==
    LET r == _insert(key, value, root, f) IN
    IF r.ok THEN [ok |-> TRUE, root |-> <<r.agent>>]
    ELSE [ok |-> FALSE, root |-> root]

\* Fault variant of delete: _delete runs whether or not the key is found.
delete_unchecked(key, root, f) ==
    LET r == _delete(key, root, f) IN
    IF r.ok THEN [ok |-> TRUE, root |-> r.agent]
    ELSE [ok |-> FALSE, root |-> root]

\* BinaryTree::delete: _delete only when _find finds the key.
delete(key, root, f) ==
    LET q == _find(key, root, f) IN
    IF ~q.ok THEN [ok |-> FALSE, root |-> q.root]
    ELSE IF ~q.found THEN [ok |-> TRUE, root |-> q.root]
    ELSE LET r == _delete(key, q.root, f) IN
         IF r.ok THEN [ok |-> TRUE, root |-> r.agent]
         ELSE [ok |-> FALSE, root |-> q.root]

\* ----------------------------------------------------------- logical tree
\* LogicalTree::refresh_tree_view: change the view when the superblock holds
\* a root address, keep the tree otherwise.
refresh_tree_view(root, f) ==
    LET a == get_root_addr(f) IN
    IF a # <<>> THEN change_view(a[1]) ELSE root

\* Fault variant of get: the view is never refreshed.
get_cached(key, root, g, f) == find(key, root, f)

\* LogicalTree::get: refresh when no guard is held, then find.
get(key, root, g, f) ==
    find(key, IF g THEN root ELSE refresh_tree_view(root, f), f)

\* LogicalTree::commit up to the superblock write: store the tree, then
\* commit_root_addr when store returned an address.
commit(root, f) ==
    LET s == tree_store(root, f) IN
    [root |-> s.root,
     file |-> IF s.addr # <<>> THEN commit_root_addr(s.file, s.addr[1]) ELSE s.file]

\* What get(key) on handle h answers in the current state.
Answer(h, key) == get(key, tree[h], guard[h], file)

\* What get(key) on handle h answers in the state a step leads to.
AnswerNext(h, key) == get(key, tree'[h], guard'[h], file')

\* What a handle opened after a step answers.
DiskAnswerNext(key) == get(key, <<>>, FALSE, file')

\* What a handle opened now answers: LogicalTree::new, then get.
DiskAnswer(key) == get(key, <<>>, FALSE, file)

Idle(h) == hstate[h] = "ready" /\ ~guard[h]
InTxn(h) == hstate[h] = "ready" /\ guard[h]

\* ---------------------------------------------------------------- actions
Init ==
    /\ file = EmptyFile
    /\ lock = 0
    /\ hstate = [h \in Handles |-> "closed"]
    /\ guard = [h \in Handles |-> FALSE]
    /\ tree = [h \in Handles |-> <<>>]
    /\ wbuf = [h \in Handles |-> <<>>]
    /\ crashes = 0

\* LogicalTree::new: FileStorage::new (ensure_superblock under the lock, which
\* is released again), then refresh_tree_view on an empty tree.
Open(h) ==
    /\ hstate[h] = "closed"
    /\ lock_free(lock)
    /\ file' = ensure_superblock(file)
    /\ tree' = [tree EXCEPT ![h] = refresh_tree_view(<<>>, file')]
    /\ hstate' = [hstate EXCEPT ![h] = "ready"]
    /\ UNCHANGED <<lock, guard, wbuf, crashes>>

\* The handle is dropped, or its process stops: its guard goes, and with it the lock.
Drop(h) ==
    /\ hstate[h] # "closed"
    /\ IF hstate[h] = "ready"
       THEN UNCHANGED crashes
       ELSE crashes < MaxCrashes /\ crashes' = crashes + 1
    /\ hstate' = [hstate EXCEPT ![h] = "closed"]
    /\ lock' = IF lock = h THEN 0 ELSE lock
    /\ guard' = [guard EXCEPT ![h] = FALSE]
    /\ tree' = [tree EXCEPT ![h] = <<>>]
    /\ wbuf' = [wbuf EXCEPT ![h] = <<>>]
    /\ UNCHANGED file

\* Fault variant of Begin: the view is refreshed under a guard too.
BeginRefreshing(h) ==
    /\ hstate[h] = "ready"
    /\ guard[h] \/ lock_free(lock)
    /\ lock' = h
    /\ guard' = [guard EXCEPT ![h] = TRUE]
    /\ tree' = [tree EXCEPT ![h] = refresh_tree_view(tree[h], file)]
    /\ UNCHANGED <<file, hstate, wbuf, crashes>>

\* LogicalTree::begin: with no guard, wait for the lock, keep the guard, refresh.
Begin(h) ==
    /\ hstate[h] = "ready"
    /\ IF guard[h]
       THEN UNCHANGED <<lock, guard, tree>>
       ELSE /\ lock_free(lock)
            /\ lock' = h
            /\ guard' = [guard EXCEPT ![h] = TRUE]
            /\ tree' = [tree EXCEPT ![h] = refresh_tree_view(tree[h], file)]
    /\ UNCHANGED <<file, hstate, wbuf, crashes>>

\* Fault variant of Get: the superblock is re-read under the guard too.
GetRefreshing(h, key) ==
    /\ hstate[h] = "ready"
    /\ tree' = [tree EXCEPT ![h] = get(key, tree[h], FALSE, file).root]
    /\ UNCHANGED <<file, lock, hstate, guard, wbuf, crashes>>

\* LogicalTree::get
Get(h, key) ==
    /\ hstate[h] = "ready"
    /\ tree' = [tree EXCEPT ![h] = Answer(h, key).root]
    /\ UNCHANGED <<file, lock, hstate, guard, wbuf, crashes>>

\* Fault variant of Commit: the guard is taken out of the handle but the lock
\* it holds is not released.
CommitKeepingLock(h) ==
    /\ hstate[h] = "ready"
    /\ LET c == commit(tree[h], file) IN
       /\ Len(c.file.data) <= MaxCells
       /\ file' = c.file
       /\ tree' = [tree EXCEPT ![h] = c.root]
    /\ guard' = [guard EXCEPT ![h] = FALSE]
    /\ UNCHANGED <<lock, hstate, wbuf, crashes>>

\* LogicalTree::commit, the whole call.
Commit(h) ==
    /\ hstate[h] = "ready"
    /\ LET c == commit(tree[h], file) IN
       /\ Len(c.file.data) <= MaxCells
       /\ file' = c.file
       /\ tree' = [tree EXCEPT ![h] = c.root]
    /\ guard' = [guard EXCEPT ![h] = FALSE]
    /\ lock' = IF guard[h] THEN 0 ELSE lock
    /\ UNCHANGED <<hstate, wbuf, crashes>>

\* Fault variant of Wrapped: under the guard the new tree is stored at once.
WrappedStoring(m, g, f) ==
    IF m.ok
    THEN LET s == tree_store(m.root, f) IN
         [ok |-> TRUE, root |-> s.root, file |-> IF g THEN s.file ELSE commit(m.root, f).file,
          guard |-> g]
    ELSE [ok |-> FALSE, root |-> m.root, file |-> f, guard |-> TRUE]

\* put or del around its tree operation, whose result is m: in place under a
\* guard; from Idle (begin has refreshed the view) the operation, then commit,
\* and an error returns before the commit, the guard still held.
Wrapped(m, g, f) ==
    IF g
    THEN [ok |-> m.ok, root |-> m.root, file |-> f, guard |-> TRUE]
    ELSE IF m.ok
         THEN LET c == commit(m.root, f) IN
              [ok |-> TRUE, root |-> c.root, file |-> c.file, guard |-> FALSE]
         ELSE [ok |-> FALSE, root |-> m.root, file |-> f, guard |-> TRUE]

\* Fault variant of begin_view: an Idle put or del works on the cached view.
begin_view_cached(root, g, f) == root

\* The view a put or del works on: begin refreshes it when no guard is held.
begin_view(root, g, f) == IF g THEN root ELSE refresh_tree_view(root, f)

\* Fault variant of put: under a guard too, put refreshes, inserts and commits.
put_through(key, value, root, g, f) ==
    Wrapped(insert(key, value, refresh_tree_view(root, f), f), FALSE, f)

\* LogicalTree::put, the whole call
put(key, value, root, g, f) ==
    Wrapped(insert(key, value, begin_view(root, g, f), f), g, f)

\* LogicalTree::del, the whole call
del(key, root, g, f) ==
    Wrapped(delete(key, begin_view(root, g, f), f), g, f)

\* The handle takes the outcome p of a put or del; begin inside it waits for the lock.
Apply(h, p) ==
    /\ hstate[h] = "ready"
    /\ guard[h] \/ lock_free(lock)
    /\ Len(p.file.data) <= MaxCells
    /\ file' = p.file
    /\ tree' = [tree EXCEPT ![h] = p.root]
    /\ guard' = [guard EXCEPT ![h] = p.guard]
    /\ lock' = IF p.guard THEN h ELSE IF lock = h THEN 0 ELSE lock
    /\ UNCHANGED <<hstate, wbuf, crashes>>

Put(h, key, value) == Apply(h, put(key, value, tree[h], guard[h], file))

Del(h, key) == Apply(h, del(key, tree[h], guard[h], file))

Next ==
    \E h \in Handles :
        \/ Open(h)
        \/ Drop(h)
        \/ Begin(h)
        \/ Commit(h)
        \/ \E k \in Keys : Get(h, k)
        \/ \E k \in Keys, v \in Vals : Put(h, k, v)
        \/ \E k \in Keys : Del(h, k)

Spec == Init /\ [][Next]_vars

\* ------------------------------------------------- commit, step by step
\* Fault variant of CommitStart: store writes a loaded root again although it
\* has an address, and gives it the new one.
CommitStartRewriting(h) ==
    /\ InTxn(h)
    /\ LET root == IF tree[h] # <<>> /\ tree[h][1].inner # <<>>
                   THEN <<[tree[h][1] EXCEPT !.addr = <<>>]>> ELSE tree[h]
           s == tree_store(root, file)
       IN /\ Len(s.file.data) <= MaxStepCells
          /\ tree' = [tree EXCEPT ![h] = s.root]
          /\ wbuf' = [wbuf EXCEPT ![h] =
                         SubSeq(s.file.data, Len(file.data) + 1, Len(s.file.data))]
    /\ hstate' = [hstate EXCEPT ![h] = "store"]
    /\ UNCHANGED <<file, lock, guard, crashes>>

\* LogicalTree::commit of a transaction begins: the tree is stored; the cells
\* store writes reach the file one write at a time (CommitAppend).
CommitStart(h) ==
    /\ InTxn(h)
    /\ LET s == tree_store(tree[h], file) IN
       /\ Len(s.file.data) <= MaxStepCells
       /\ tree' = [tree EXCEPT ![h] = s.root]
       /\ wbuf' = [wbuf EXCEPT ![h] =
                      SubSeq(s.file.data, Len(file.data) + 1, Len(s.file.data))]
    /\ hstate' = [hstate EXCEPT ![h] = "store"]
    /\ UNCHANGED <<file, lock, guard, crashes>>

\* put or del from Idle: begin, the tree operation with result m, and commit
\* begins.
AutoStart(h, m) ==
    /\ Idle(h)
    /\ lock_free(lock)
    /\ lock' = h
    /\ guard' = [guard EXCEPT ![h] = TRUE]
    /\ IF m.ok
       THEN LET s == tree_store(m.root, file) IN
            /\ Len(s.file.data) <= MaxStepCells
            /\ tree' = [tree EXCEPT ![h] = s.root]
            /\ wbuf' = [wbuf EXCEPT ![h] =
                           SubSeq(s.file.data, Len(file.data) + 1, Len(s.file.data))]
            /\ hstate' = [hstate EXCEPT ![h] = "store"]
       ELSE /\ tree' = [tree EXCEPT ![h] = m.root]
            /\ UNCHANGED <<wbuf, hstate>>
    /\ UNCHANGED <<file, crashes>>

\* put or del under a guard: the tree operation alone, with result m.
InPlace(h, m) ==
    /\ InTxn(h)
    /\ tree' = [tree EXCEPT ![h] = m.root]
    /\ UNCHANGED <<file, lock, hstate, guard, wbuf, crashes>>

PutStep(h, key, value) ==
    \/ AutoStart(h, insert(key, value, refresh_tree_view(tree[h], file), file))
    \/ InPlace(h, insert(key, value, tree[h], file))

DelStep(h, key) ==
    \/ AutoStart(h, delete(key, refresh_tree_view(tree[h], file), file))
    \/ InPlace(h, delete(key, tree[h], file))

\* Fault variant of CommitAppend: the write lands where the data region
\* starts, not at the end of the file.
CommitAppendInPlace(h) ==
    /\ hstate[h] = "store"
    /\ wbuf[h] # <<>>
    /\ file' = IF file.data = <<>> THEN write(file, <<Head(wbuf[h])>>)
               ELSE [file EXCEPT !.data = <<Head(wbuf[h])>> \o Tail(@)]
    /\ wbuf' = [wbuf EXCEPT ![h] = Tail(@)]
    /\ UNCHANGED <<lock, hstate, guard, tree, crashes>>

\* One write of store reaches the file, at the end the file has then.
CommitAppend(h) ==
    /\ hstate[h] = "store"
    /\ wbuf[h] # <<>>
    /\ file' = write(file, <<Head(wbuf[h])>>)
    /\ wbuf' = [wbuf EXCEPT ![h] = Tail(@)]
    /\ UNCHANGED <<lock, hstate, guard, tree, crashes>>

\* Fault variant of CommitRoot: the superblock is written while records of
\* the tree are still to be appended.
CommitRootEarly(h) ==
    /\ hstate[h] = "store"
    /\ file' = IF tree[h] # <<>> THEN commit_root_addr(file, tree[h][1].addr[1]) ELSE file
    /\ hstate' = [hstate EXCEPT ![h] = "release"]
    /\ wbuf' = [wbuf EXCEPT ![h] = <<>>]
    /\ UNCHANGED <<lock, guard, tree, crashes>>

\* Fault variant of CommitRoot: an empty tree is committed as no root.
CommitRootNone(h) ==
    /\ hstate[h] = "store"
    /\ wbuf[h] = <<>>
    /\ file' = commit_root_addr(file, IF tree[h] # <<>> THEN tree[h][1].addr[1] ELSE 0)
    /\ hstate' = [hstate EXCEPT ![h] = "release"]
    /\ UNCHANGED <<lock, guard, tree, wbuf, crashes>>

\* store has returned: commit_root_addr with the root's address, if any.
CommitRoot(h) ==
    /\ hstate[h] = "store"
    /\ wbuf[h] = <<>>
    /\ file' = IF tree[h] # <<>> THEN commit_root_addr(file, tree[h][1].addr[1]) ELSE file
    /\ hstate' = [hstate EXCEPT ![h] = "release"]
    /\ UNCHANGED <<lock, guard, tree, wbuf, crashes>>

\* Fault variant of CommitRelease: the guard is dropped as soon as store has
\* begun, with records and the superblock still to be written.
CommitReleaseAnytime(h) ==
    /\ hstate[h] \in {"store", "release"}
    /\ guard[h]
    /\ guard' = [guard EXCEPT ![h] = FALSE]
    /\ lock' = 0
    /\ hstate' = [hstate EXCEPT ![h] = IF @ = "release" THEN "ready" ELSE @]
    /\ UNCHANGED <<file, tree, wbuf, crashes>>

\* self.guard.take(): the guard is dropped, the lock released.
CommitRelease(h) ==
    /\ hstate[h] = "release"
    /\ guard' = [guard EXCEPT ![h] = FALSE]
    /\ lock' = IF guard[h] THEN 0 ELSE lock
    /\ hstate' = [hstate EXCEPT ![h] = "ready"]
    /\ UNCHANGED <<file, tree, wbuf, crashes>>

\* LogicalTree::commit with no guard: the root has its address, store writes
\* nothing, and the call is the one superblock write.
CommitIdle(h) == Idle(h) /\ Commit(h)

NextSteps ==
    \E h \in Handles :
        \/ Open(h)
        \/ Drop(h)
        \/ Begin(h)
        \/ \E k \in Keys : Get(h, k)
        \/ \E k \in Keys, v \in Vals : PutStep(h, k, v)
        \/ \E k \in Keys : DelStep(h, k)
        \/ CommitIdle(h)
        \/ CommitStart(h)
        \/ CommitAppend(h)
        \/ CommitRoot(h)
        \/ CommitRelease(h)

SpecSteps == Init /\ [][NextSteps]_vars

\* store's writes of two handles never interleave: the addresses store took
\* are the offsets its records are written at.
OneWriter ==
    \A g, h \in Handles : hstate[g] = "store" /\ hstate[h] = "store" /\ g # h
                            => wbuf[g] = <<>> \/ wbuf[h] = <<>>

\* --------------------------------------------------- get, step by step
\* LogicalTree::get with no guard begins: refresh_tree_view reads the
\* superblock; the node and value records are read later (GetFinish).
GetStart(h) ==
    /\ Idle(h)
    /\ tree' = [tree EXCEPT ![h] = refresh_tree_view(tree[h], file)]
    /\ hstate' = [hstate EXCEPT ![h] = "find"]
    /\ UNCHANGED <<file, lock, guard, wbuf, crashes>>

\* ... and ends: self.tree.find(key, storage) loads the path from the file as
\* it is by now.
GetFinish(h, key) ==
    /\ hstate[h] = "find"
    /\ tree' = [tree EXCEPT ![h] = find(key, tree[h], file).root]
    /\ hstate' = [hstate EXCEPT ![h] = "ready"]
    /\ UNCHANGED <<file, lock, guard, wbuf, crashes>>

\* LogicalTree::get under the guard: find alone.
GetInTxn(h, key) == guard[h] /\ Get(h, key)

NextGet ==
    \E h \in Handles :
        \/ Open(h)
        \/ Drop(h)
        \/ Begin(h)
        \/ GetStart(h)
        \/ \E k \in Keys : GetFinish(h, k)
        \/ \E k \in Keys : GetInTxn(h, k)
        \/ \E k \in Keys, v \in Vals : PutStep(h, k, v)
        \/ \E k \in Keys : DelStep(h, k)
        \/ CommitIdle(h)
        \/ CommitStart(h)
        \/ CommitAppend(h)
        \/ CommitRoot(h)
        \/ CommitRelease(h)

SpecGet == Init /\ [][NextGet]_vars

\* ------------------------------------------------- commit, with I/O errors
\* The address store leaves in an agent when the write at offset end fails:
\* records before end are written (the last one perhaps in part), the agent
\* whose record starts at end has its address when get_write_addr returned and
\* to_writer failed (keep), agents store did not reach have none.
addr_at_error(addr, end, keep) ==
    IF addr = <<>> \/ addr[1] < end \/ (addr[1] = end /\ keep) THEN addr ELSE <<>>

\* TreeNodeAgent::store left by the ? of a failed get_write_addr or write.
RECURSIVE store_error(_, _, _)
store_error(agent, end, keep) ==
    IF agent.inner = <<>> \/ agent.addr = <<>> \/ agent.addr[1] < end
    THEN agent
    ELSE LET node == agent.inner[1]
             sub(a) == IF a = <<>> THEN a ELSE <<store_error(a[1], end, keep)>>
         IN [inner |-> <<[node EXCEPT
                            !.value_agent.addr = addr_at_error(@, end, keep),
                            !.left_agent = sub(@),
                            !.right_agent = sub(@)]>>,
             addr |-> addr_at_error(agent.addr, end, keep)]

\* Fault variant of CommitFail: the guard is dropped on the way out of the
\* failed commit.
CommitFailReleasing(h) ==
    /\ hstate[h] = "store"
    /\ crashes < MaxCrashes
    /\ crashes' = crashes + 1
    /\ \E keep \in BOOLEAN :
          tree' = [tree EXCEPT ![h] =
                      IF tree[h] = <<>> THEN <<>>
                      ELSE <<store_error(tree[h][1], file.len, keep)>>]
    /\ wbuf' = [wbuf EXCEPT ![h] = <<>>]
    /\ hstate' = [hstate EXCEPT ![h] = "ready"]
    /\ guard' = [guard EXCEPT ![h] = FALSE]
    /\ lock' = IF lock = h THEN 0 ELSE lock
    /\ UNCHANGED file

\* Fault variant of CommitFail: the error of store is dropped, and the
\* superblock write and the release of the guard follow.
CommitFailSwallowed(h) ==
    /\ hstate[h] = "store"
    /\ crashes < MaxCrashes
    /\ crashes' = crashes + 1
    /\ file' = IF tree[h] # <<>> THEN commit_root_addr(file, tree[h][1].addr[1]) ELSE file
    /\ wbuf' = [wbuf EXCEPT ![h] = <<>>]
    /\ hstate' = [hstate EXCEPT ![h] = "ready"]
    /\ guard' = [guard EXCEPT ![h] = FALSE]
    /\ lock' = IF guard[h] THEN 0 ELSE lock
    /\ UNCHANGED tree

\* commit returns an error: the next write of store, or get_write_addr before
\* it, or (all records written) commit_root_addr fails, and ? returns from
\* store and from commit before the superblock is written and before
\* self.guard.take().
CommitFail(h) ==
    /\ hstate[h] = "store"
    /\ crashes < MaxCrashes
    /\ crashes' = crashes + 1
    /\ \E keep \in BOOLEAN :
          tree' = [tree EXCEPT ![h] =
                      IF tree[h] = <<>> THEN <<>>
                      ELSE <<store_error(tree[h][1], get_write_addr(file), keep)>>]
    /\ wbuf' = [wbuf EXCEPT ![h] = <<>>]
    /\ hstate' = [hstate EXCEPT ![h] = "ready"]
    /\ UNCHANGED <<file, lock, guard>>

NextErr ==
    \/ NextSteps
    \/ \E h \in Handles : CommitFail(h)

SpecErr == Init /\ [][NextErr]_vars

\* ------------------------------------------------- the storage by itself
\* The data region grows to at most MaxStorageCells cells when the storage is
\* driven directly.
MaxStorageCells == 4

\* What is written: a value record, or the record of a new leaf node.
Records ==
    {ToWriterString(v) : v \in Vals}
        \cup {ToWriterNodeHD(TreeNodeHDFrom(TreeNodeNew(k, v))) : k \in Keys, v \in Vals}

\* Where an earlier seek or read can have left the cursor: at an offset of
\* the superblock (get_root_addr, commit_root_addr) or at any cell up to the
\* file's end.
Cursors(f) == {0, 1, 9} \cup {SUPERBLOCK + i : i \in 0..Len(f.data)}

\* Root addresses handed to commit_root_addr: 0, the 42 of
\* test_storage_superblock, offsets of the data region.
RootAddrs == {0, 42} \cup {SUPERBLOCK + i : i \in 0..1}

\* storage.write_all(record) on an open storage
StWrite(h, pos, cells) ==
    /\ hstate[h] = "ready"
    /\ Len(file.data) + Len(cells) <= MaxStorageCells
    /\ file' = storage_write(file, pos, cells)
    /\ UNCHANGED <<lock, hstate, guard, tree, wbuf, crashes>>

\* storage.commit_root_addr(addr) on an open storage
StCommitRootAddr(h, addr) ==
    /\ hstate[h] = "ready"
    /\ file' = commit_root_addr(file, addr)
    /\ UNCHANGED <<lock, hstate, guard, tree, wbuf, crashes>>

NextStorage ==
    \E h \in Handles :
        \/ Open(h)
        \/ Drop(h)
        \/ \E pos \in Cursors(file), cells \in Records : StWrite(h, pos, cells)
        \/ \E addr \in RootAddrs : StCommitRootAddr(h, addr)

SpecStorage == Init /\ [][NextStorage]_vars

\* ------------------------------------------------- begin, waiting for the lock
\* The data region grows to at most MaxLiveCells cells where begin is a call
\* that can wait.
MaxLiveCells == 6

\* LogicalTree::begin with no guard is called: the caller is in
\* ExclusiveFlock::wait_lock from here on.
BeginCall(h) ==
    /\ Idle(h) /\ hstate[h] = "ready"
    /\ hstate' = [hstate EXCEPT ![h] = "begin"]
    /\ UNCHANGED <<file, lock, guard, tree, wbuf, crashes>>

\* wait_lock returns, no other open file holding the lock: begin keeps the
\* guard, refreshes the view and returns.
BeginAcquire(h) ==
    /\ hstate[h] = "begin"
    /\ lock_free(lock)
    /\ lock' = h
    /\ guard' = [guard EXCEPT ![h] = TRUE]
    /\ tree' = [tree EXCEPT ![h] = refresh_tree_view(tree[h], file)]
    /\ hstate' = [hstate EXCEPT ![h] = "ready"]
    /\ UNCHANGED <<file, wbuf, crashes>>

\* put under the guard
PutLive(h, key, value) == InTxn(h) /\ Put(h, key, value)

\* commit of a transaction
CommitLive(h) == InTxn(h) /\ Commit(h) /\ Len(file'.data) <= MaxLiveCells

\* A handle that is not inside a call is dropped.
DropLive(h) == hstate[h] = "ready" /\ Drop(h)

\* The transaction of h ends: its guard is dropped, or by commit.
Release(h) == (InTxn(h) /\ DropLive(h)) \/ CommitLive(h)

NextLive ==
    \E h \in Handles :
        \/ Open(h)
        \/ DropLive(h)
        \/ BeginCall(h)
        \/ BeginAcquire(h)
        \/ \E k \in Keys, v \in Vals : PutLive(h, k, v)
        \/ CommitLive(h)

\* Fair scheduling: every transaction ends, and a caller waiting in begin
\* while the lock comes free again and again is not passed over for ever.
FairLive ==
    \A h \in Handles : WF_vars(Release(h)) /\ SF_vars(BeginAcquire(h))

SpecLive == Init /\ [][NextLive]_vars /\ FairLive

\* ------------------------------------------------- one handle, more keys
\* Keys put and deleted where the shape of the tree matters: four of them
\* give a node with two children whose right child has a left child.
TreeKeys == 1..4

\* The handle the tree operations run on.
TreeHandle == 1

\* The data region grows to at most MaxTreeCells cells: two nodes of the tree
\* are in the file at most, the others in memory.
MaxTreeCells == 6

TreePut(key, value) == Put(TreeHandle, key, value) /\ Len(file'.data) <= MaxTreeCells

TreeDel(key) == Del(TreeHandle, key) /\ Len(file'.data) <= MaxTreeCells

TreeCommit == Commit(TreeHandle) /\ Len(file'.data) <= MaxTreeCells

NextTree ==
    \/ Open(TreeHandle)
    \/ Drop(TreeHandle)
    \/ Begin(TreeHandle)
    \/ TreeCommit
    \/ \E k \in TreeKeys, v \in Vals : TreePut(k, v)
    \/ \E k \in TreeKeys : TreeDel(k)

SpecTree == Init /\ [][NextTree]_vars

\* The tree under an agent with every node and value loaded from the file:
\* key, value, size and the two subtrees of each node.
RECURSIVE Full(_, _)
Full(agent, f) ==
    IF agent = <<>> THEN <<>>
    ELSE LET node == load(agent[1], f).agent.inner[1] IN
         <<[key |-> node.key,
            size |-> node.size,
            value |-> StringAgentGet(node.value_agent, f).agent.inner,
            left |-> Full(node.left_agent, f),
            right |-> Full(node.right_agent, f)]>>

\* The keys of a loaded tree, and the value it holds for a key (<<>> for none).
RECURSIVE KeysOf(_)
KeysOf(t) ==
    IF t = <<>> THEN {} ELSE {t[1].key} \cup KeysOf(t[1].left) \cup KeysOf(t[1].right)

RECURSIVE ValueOf(_, _)
ValueOf(t, key) ==
    IF t = <<>> THEN <<>>
    ELSE IF key < t[1].key THEN ValueOf(t[1].left, key)
    ELSE IF key > t[1].key THEN ValueOf(t[1].right, key)
    ELSE t[1].value

\* The number of nodes of a loaded tree.
RECURSIVE Count(_)
Count(t) == IF t = <<>> THEN 0 ELSE 1 + Count(t[1].left) + Count(t[1].right)

\* The size field of the node with a key, 0 when there is none.
RECURSIVE SizeAt(_, _)
SizeAt(t, key) ==
    IF t = <<>> THEN 0
    ELSE IF key < t[1].key THEN SizeAt(t[1].left, key)
    ELSE IF key > t[1].key THEN SizeAt(t[1].right, key)
    ELSE t[1].size

\* ------------------------------------------------- open, step by step
\* LogicalTree::new runs FileStorage::new, where ensure_superblock takes the
\* lock, reads the file's length, fills a short file and writes the empty
\* superblock, and lets the lock go when it returns; refresh_tree_view follows
\* without the lock.  hstate is the step the handle's open has come to:
\* "opening" (lock held), "fill" (length read, found short), "root" (zeros
\* written), "opened" (superblock in place), "view" (lock let go).
MaxOpenCells == 3

\* Fault variant of OpenLock: ensure_superblock goes on without the lock.
OpenLockFree(h) ==
    /\ hstate[h] = "closed"
    /\ hstate' = [hstate EXCEPT ![h] = "opening"]
    /\ lock' = IF lock = 0 THEN h ELSE lock
    /\ UNCHANGED <<file, guard, tree, wbuf, crashes>>

\* self.lock() in ensure_superblock: wait_lock returns when the lock is free.
OpenLock(h) ==
    /\ hstate[h] = "closed"
    /\ lock_free(lock)
    /\ lock' = h
    /\ hstate' = [hstate EXCEPT ![h] = "opening"]
    /\ UNCHANGED <<file, guard, tree, wbuf, crashes>>

\* guard.seek(SeekFrom::End(0)) and the test end_idx < SUPERBLOCK.
OpenCheck(h) ==
    /\ hstate[h] = "opening"
    /\ hstate' = [hstate EXCEPT ![h] = IF seek_end(file) < SUPERBLOCK THEN "fill"
                                       ELSE "opened"]
    /\ UNCHANGED <<file, lock, guard, tree, wbuf, crashes>>

\* guard.write_all(&vec![0; SUPERBLOCK]): SUPERBLOCK zero bytes at the file's
\* end; they are the whole superblock when the file was empty.
OpenFill(h) ==
    /\ hstate[h] = "fill"
    /\ file' = [file EXCEPT !.len = @ + SUPERBLOCK,
                            !.meta = IF file.len = 0 THEN [tag |-> 0, root_addr |-> 0]
                                     ELSE @]
    /\ hstate' = [hstate EXCEPT ![h] = "root"]
    /\ UNCHANGED <<lock, guard, tree, wbuf, crashes>>

\* guard.commit_root_addr(0)
OpenRoot(h) ==
    /\ hstate[h] = "root"
    /\ file' = commit_root_addr(file, 0)
    /\ hstate' = [hstate EXCEPT ![h] = "opened"]
    /\ UNCHANGED <<lock, guard, tree, wbuf, crashes>>

\* ensure_superblock returns and its guard is dropped.
OpenUnlock(h) ==
    /\ hstate[h] = "opened"
    /\ lock' = IF lock = h THEN 0 ELSE lock
    /\ hstate' = [hstate EXCEPT ![h] = "view"]
    /\ UNCHANGED <<file, guard, tree, wbuf, crashes>>

\* db.refresh_tree_view() at the end of LogicalTree::new
OpenView(h) ==
    /\ hstate[h] = "view"
    /\ tree' = [tree EXCEPT ![h] = refresh_tree_view(<<>>, file)]
    /\ hstate' = [hstate EXCEPT ![h] = "ready"]
    /\ UNCHANGED <<file, lock, guard, wbuf, crashes>>

PutOpen(h, key, value) == Put(h, key, value) /\ Len(file'.data) <= MaxOpenCells

NextOpen ==
    \E h \in Handles :
        \/ OpenLock(h)
        \/ OpenCheck(h)
        \/ OpenFill(h)
        \/ OpenRoot(h)
        \/ OpenUnlock(h)
        \/ OpenView(h)
        \/ Drop(h)
        \/ Begin(h)
        \/ Commit(h) /\ Len(file'.data) <= MaxOpenCells
        \/ \E k \in Keys, v \in Vals : PutOpen(h, k, v)

SpecOpen == Init /\ [][NextOpen]_vars

\* ------------------------------------------------- open of a file at hand
\* The file is there before the first open, with any length up to SUPERBLOCK:
\* empty, cut short, or with its superblock and no record.  What a short file
\* holds is no Meta to decode (tag 2).
FileLengths == 0..SUPERBLOCK

InitShort ==
    /\ \E len \in FileLengths :
          file = [len |-> len,
                  meta |-> [tag |-> IF len \in {0, SUPERBLOCK} THEN 0 ELSE 2,
                            root_addr |-> 0],
                  data |-> <<>>]
    /\ lock = 0
    /\ hstate = [h \in Handles |-> "closed"]
    /\ guard = [h \in Handles |-> FALSE]
    /\ tree = [h \in Handles |-> <<>>]
    /\ wbuf = [h \in Handles |-> <<>>]
    /\ crashes = 0

NextShort ==
    \E h \in Handles :
        \/ Open(h)
        \/ Drop(h)
        \/ Begin(h)

SpecShort == InitShort /\ [][NextShort]_vars

\* ------------------------------------------------------------------ claims
\* The node agent's payload is in memory / the agent has an address.
Loaded(agent) == agent.inner # <<>>
Addressed(agent) == agent.addr # <<>>

\* C1: get(k) on the same handle right after put(k, v) returns v, whether put
\* ran under the handle's guard or was wrapped in begin and commit from Idle.
C1_GetAfterPut ==
    [][\A h \in Handles, k \in Keys, v \in Vals :
          Put(h, k, v) => AnswerNext(h, k).ok /\ AnswerNext(h, k).value = <<v>>]_vars

\* C1 witness: on one handle, key 2 was put from Idle into a tree read from
\* the disk (the root is stored, its left child is still unloaded) and get(2)
\* answers the value put; the other handle has put key 1 under its guard.
C1_Witness ==
    /\ Idle(1) /\ tree[1] # <<>>
    /\ Loaded(tree[1][1]) /\ Addressed(tree[1][1])
    /\ tree[1][1].inner[1].key = 2
    /\ tree[1][1].inner[1].left_agent # <<>>
    /\ ~Loaded(tree[1][1].inner[1].left_agent[1])
    /\ Answer(1, 2).value = <<2>>
    /\ InTxn(2) /\ tree[2] # <<>> /\ ~Addressed(tree[2][1])
    /\ Answer(2, 1).value = <<1>>

\* C2: a put(k1, v) leaves the answer of get(k2) unchanged for every other
\* key k2, so after any sequence of puts every key answers its last value,
\* and a key never put answers none.
C2_PutFrame ==
    [][\A h \in Handles, k1 \in Keys, k2 \in Keys, v \in Vals :
          Put(h, k1, v) /\ k2 # k1
              => /\ AnswerNext(h, k2).ok
                 /\ AnswerNext(h, k2).value = Answer(h, k2).value]_vars

\* C2 witness: both keys are in a handle's tree with different values, and on
\* a freshly created file every key answers none.
C2_Witness ==
    \E h \in Handles :
        /\ hstate[h] = "ready"
        /\ Answer(h, 1).value = <<2>>
        /\ Answer(h, 2).value = <<1>>
        /\ tree[h][1].inner[1].size = 2

\* C3: get(k) on the same handle right after del(k) of a present key answers
\* none, under the handle's guard and wrapped in begin and commit from Idle.
C3_GetAfterDel ==
    [][\A h \in Handles, k \in Keys :
          Del(h, k) /\ Answer(h, k).value # <<>>
              => AnswerNext(h, k).ok /\ AnswerNext(h, k).value = <<>>]_vars

\* C4: a put or del that handle a applies under its guard leaves the file as
\* it is, and every other handle b answers every key after it as a handle
\* opened before it would have: with the value the root in the superblock has.
C4_NoDirtyRead ==
    [][\A a \in Handles, k1 \in Keys :
          guard[a] /\ ((\E v \in Vals : Put(a, k1, v)) \/ Del(a, k1))
              => /\ file' = file
                 /\ \A b \in Handles \ {a}, k2 \in Keys :
                       hstate[b] = "ready"
                           => /\ AnswerNext(b, k2).ok
                              /\ AnswerNext(b, k2).value = DiskAnswer(k2).value]_vars

\* C4 witness: handle 1 has, uncommitted, replaced key 1 and deleted key 2;
\* handle 2 still answers both keys as committed.
C4_Witness ==
    /\ InTxn(1) /\ Idle(2)
    /\ Answer(1, 1).value = <<2>> /\ Answer(2, 1).value = <<1>>
    /\ Answer(1, 2).value = <<>> /\ Answer(2, 2).value = <<2>>

\* C5: when the commit of a transaction of handle a returns (an explicit
\* commit, or the one put wraps around itself from Idle), an Idle handle b
\* answers v for every key k the transaction left at v.
C5_CommitVisible ==
    [][\A a \in Handles, b \in Handles, k \in Keys, v \in Vals :
          /\ a # b /\ Idle(b)
          /\ \/ guard[a] /\ Answer(a, k).value = <<v>> /\ Commit(a)
             \/ ~guard[a] /\ Put(a, k, v)
          => AnswerNext(b, k).ok /\ AnswerNext(b, k).value = <<v>>]_vars

\* C5 witness: both handles Idle; the tree handle 2 has in memory still holds
\* the value 1 for key 1, and its get answers the value 2 handle 1 committed.
C5_Witness ==
    /\ Idle(1) /\ Idle(2)
    /\ find(1, tree[2], file).value = <<1>>
    /\ Answer(2, 1).value = <<2>>
    /\ Answer(1, 1).value = <<2>>

\* C6: at most one handle holds a guard, the one that owns the lock; it holds
\* it through every step of its commit; and while it does, begin on another
\* handle cannot return.
C6_WriterExclusion ==
    \A a \in Handles :
        /\ hstate[a] \in {"store", "release"} => guard[a]
        /\ guard[a] => /\ lock = a
                       /\ \A b \in Handles \ {a} : ~guard[b] /\ ~ENABLED Begin(b)

\* C6 witness: handle 1 is in the middle of its commit's writes while handle 2
\* is open without a guard.
C6_Witness ==
    /\ hstate[1] = "store" /\ wbuf[1] # <<>> /\ file.data # <<>>
    /\ Idle(2)

\* C7: while a handle holds its guard, no step other than its own put or del
\* changes what its get answers: not a step of another handle, and not its
\* own get or begin, which do not re-read the superblock.
C7_SnapshotIsolation ==
    [][\A a \in Handles, k \in Keys :
          /\ guard[a] /\ guard'[a]
          /\ ~(\E k1 \in Keys, v \in Vals : Put(a, k1, v))
          /\ ~(\E k1 \in Keys : Del(a, k1))
          => AnswerNext(a, k).ok /\ AnswerNext(a, k).value = Answer(a, k).value]_vars

\* C7 witness: handle 1 holds its guard and has read key 1 from the root it
\* took at begin; the superblock has since been written with another root,
\* under which key 1 has another value.
C7_Witness ==
    /\ InTxn(1) /\ tree[1] # <<>>
    /\ Addressed(tree[1][1]) /\ Loaded(tree[1][1])
    /\ get_root_addr(file) # tree[1][1].addr
    /\ Answer(1, 1).value = <<2>>
    /\ DiskAnswer(1).value = <<1>>

\* C8: when the commit of a transaction returns, a handle opened on the file
\* answers every key as the committing handle's tree did at the commit.
C8_ReopenDeterminism ==
    [][\A a \in Handles, k \in Keys :
          guard[a] /\ Commit(a)
              => DiskAnswerNext(k).ok /\ DiskAnswerNext(k).value = Answer(a, k).value]_vars

\* The node record at addr is complete, its value record is complete and
\* stands before it, and so does the record of every child, recursively.
RECURSIVE WellWritten(_, _)
WellWritten(addr, f) ==
    LET r == FromReaderNodeHD(f, addr)
        below(a) == a[1] >= SUPERBLOCK /\ a[1] < addr
    IN  /\ r.ok
        /\ r.hd.value_addr # <<>>
        /\ below(r.hd.value_addr)
        /\ FromReaderString(f, r.hd.value_addr[1]).ok
        /\ r.hd.left_addr # <<>>
              => below(r.hd.left_addr) /\ WellWritten(r.hd.left_addr[1], f)
        /\ r.hd.right_addr # <<>>
              => below(r.hd.right_addr) /\ WellWritten(r.hd.right_addr[1], f)

\* C9: the root address in the superblock, when present, is the offset of a
\* complete node record whose value and children, recursively, are complete
\* records at lower offsets; and a step that writes a root address into the
\* superblock finds all those records in the file already.
C9_RootAtomicity ==
    /\ [](get_root_addr(file) # <<>> => WellWritten(get_root_addr(file)[1], file))
    /\ [][get_root_addr(file') # get_root_addr(file) /\ get_root_addr(file') # <<>>
             => WellWritten(get_root_addr(file')[1], file)]_vars

\* C9 witness: the superblock holds the root of a two-node tree (key 1 with
\* key 2 as its right child), written by the steps of one commit.
C9_Witness ==
    /\ get_root_addr(file) # <<>>
    /\ LET hd == FromReaderNodeHD(file, get_root_addr(file)[1]).hd IN
       /\ hd.key = 1 /\ hd.size = 2
       /\ hd.right_addr # <<>>
       /\ FromReaderNodeHD(file, hd.right_addr[1]).hd.key = 2
    /\ \E h \in Handles : hstate[h] = "release"

\* C10: no step a handle takes before its commit's superblock write (its put
\* and del, the start of its commit, each write of a record) and no stop of a
\* handle at any point changes what a handle opened afterwards answers for
\* any key; and a handle that stops holding the lock leaves the lock free.
C10_CrashSafety ==
    [][\A h \in Handles :
          \/ CommitStart(h) \/ CommitAppend(h) \/ Drop(h)
          \/ \E k \in Keys : DelStep(h, k) \/ \E v \in Vals : PutStep(h, k, v)
          => /\ \A k \in Keys : /\ DiskAnswerNext(k).ok
                                /\ DiskAnswerNext(k).value = DiskAnswer(k).value
             /\ Drop(h) /\ lock = h => lock' = 0]_vars

\* C10 witness: a commit was cut short after it had appended half a node
\* record; the lock is free, and the superblock still holds a root.
C10_Witness ==
    /\ crashes > 0 /\ lock = 0
    /\ get_root_addr(file) # <<>>
    /\ file.data[Len(file.data)].t = "head"
    /\ \E k \in Keys : DiskAnswer(k).value # <<>>

\* C11: a get with no guard, interleaved with the steps of another handle's
\* commit, answers from one root: when it has read the superblock its view
\* answers every key as that root does, with every record it needs in the
\* file; no step of any handle taken before its loads changes what the view
\* answers; and its loads find every record.
C11_ReaderOneRoot ==
    [][\A h \in Handles, k \in Keys :
          /\ GetStart(h)
                => /\ find(k, tree'[h], file').ok
                   /\ find(k, tree'[h], file').value = DiskAnswer(k).value
          /\ hstate[h] = "find" /\ hstate'[h] = "find"
                => /\ find(k, tree'[h], file').ok
                   /\ find(k, tree'[h], file').value = find(k, tree[h], file).value
          /\ GetFinish(h, k) => find(k, tree[h], file).ok]_vars

\* C11 witness: handle 1 has read the superblock and not yet loaded anything;
\* handle 2 has since appended its records and written the superblock; the
\* view of handle 1 still answers key 1 as the root before that commit.
C11_Witness ==
    /\ hstate[1] = "find" /\ tree[1] # <<>> /\ ~Loaded(tree[1][1])
    /\ hstate[2] = "release"
    /\ get_root_addr(file) # tree[1][1].addr
    /\ find(1, tree[1], file).value = <<1>>
    /\ DiskAnswer(1).value = <<2>>

\* C12: when the commit of a transaction of handle a returns, the view with
\* which another handle b then begins its transaction (the lock taken, the
\* superblock re-read) answers every key as the tree a committed, so that
\* what b commits holds the writes of both.
C12_NoLostUpdate ==
    [][\A a \in Handles, b \in Handles, k \in Keys :
          a # b /\ guard[a] /\ Commit(a) /\ Idle(b)
              => LET view == refresh_tree_view(tree'[b], file') IN
                 /\ find(k, view, file').ok
                 /\ find(k, view, file').value = Answer(a, k).value]_vars

\* C13: commit on a handle without a guard changes nothing: not the
\* superblock, not the data region, not the handle's view, not its state.
C13_IdleCommitNoOp ==
    [][\A h \in Handles :
          Idle(h) /\ Commit(h)
              => /\ file' = file
                 /\ tree'[h] = tree[h]
                 /\ Idle(h)' /\ lock' = lock]_vars

\* C14: begin on a handle that holds its guard returns at once (it waits for
\* no lock) and changes nothing: the lock, the guard, the view with its
\* uncommitted puts and dels, and the file stay as they are.
C14_BeginInTxnNoOp ==
    \A h \in Handles :
        InTxn(h) => /\ ENABLED Begin(h)
                    /\ ~ENABLED (Begin(h) /\ vars' # vars)

\* C14 witness: a handle holds its guard with an uncommitted put in its view,
\* which answers key 1 differently from the root in the superblock.
C14_Witness ==
    \E h \in Handles :
        /\ InTxn(h) /\ tree[h] # <<>> /\ ~Addressed(tree[h][1])
        /\ get_root_addr(file) # <<>>
        /\ Answer(h, 1).value = <<2>> /\ DiskAnswer(1).value = <<1>>

\* C15: a put or del on an Idle handle leaves the file, the handle's view and
\* the handle's state (Idle, lock released) exactly as begin, then the same put
\* or del under the guard, then commit, run from the same state.
C15_AutoTransaction ==
    [][\A h \in Handles, k \in Keys :
          Idle(h) =>
            LET b == refresh_tree_view(tree[h], file)
                d == commit(del(k, b, TRUE, file).root, file)
            IN /\ Del(h, k) => /\ file' = d.file
                               /\ tree'[h] = d.root
                               /\ Idle(h)' /\ lock' = 0
               /\ \A v \in Vals :
                    Put(h, k, v) =>
                      LET c == commit(put(k, v, b, TRUE, file).root, file) IN
                      /\ file' = c.file
                      /\ tree'[h] = c.root
                      /\ Idle(h)' /\ lock' = 0]_vars

\* C15 witness: an Idle handle whose cached view is not the committed root
\* (the other handle has committed since) while the lock is free.
C15_Witness ==
    /\ Idle(1) /\ lock = 0 /\ tree[1] # <<>>
    /\ get_root_addr(file) # <<>>
    /\ tree[1][1].addr # get_root_addr(file)
    /\ Answer(1, 2).value # find(2, tree[1], file).value

\* C16: when commit returns an error, the superblock holds the root it held
\* when that commit began (no write of the failed commit, and not its return,
\* touches it), or else the address of the tree's new root with every record
\* below it complete; it never holds the address of a tree written in part.
C16_FailedCommit ==
    [][\A h \in Handles :
          /\ CommitAppend(h) => get_root_addr(file') = get_root_addr(file)
          /\ CommitFail(h) =>
               \/ get_root_addr(file') = get_root_addr(file)
               \/ /\ tree[h] # <<>>
                  /\ get_root_addr(file') = tree[h][1].addr
                  /\ WellWritten(tree[h][1].addr[1], file')]_vars

\* C16 witness: commit has failed on a handle after its value record was
\* written: the handle is back with its guard, its new root has no address
\* (or one at the file's end, where nothing is written), and the superblock
\* holds another root than the handle's.
C16_Witness ==
    \E h \in Handles :
        /\ hstate[h] = "ready" /\ guard[h] /\ crashes = 1
        /\ tree[h] # <<>> /\ Loaded(tree[h][1])
        /\ tree[h][1].addr \in {<<>>, <<get_write_addr(file)>>}
        /\ Addressed(tree[h][1].inner[1].value_agent)
        /\ tree[h][1].inner[1].value_agent.addr[1] = get_write_addr(file) - 1
        /\ get_root_addr(file) # <<>>

\* Every agent of the tree old that has an address has the same address in
\* the tree new, the same agents after a store or a load.
RECURSIVE KeepsAddrs(_, _)
KeepsAddrs(old, new) ==
    IF old = <<>> THEN new = <<>>
    ELSE /\ new # <<>>
         /\ Addressed(old[1]) => new[1].addr = old[1].addr
         /\ Loaded(old[1]) =>
              /\ Loaded(new[1])
              /\ LET o == old[1].inner[1]
                     n == new[1].inner[1]
                 IN /\ Addressed(o.value_agent) => n.value_agent.addr = o.value_agent.addr
                    /\ KeepsAddrs(o.left_agent, n.left_agent)
                    /\ KeepsAddrs(o.right_agent, n.right_agent)

\* C17: no step of any handle changes a cell the data region already has or
\* shortens the file, so every offset from SUPERBLOCK on is written once; and
\* store (at the start of commit) and find under the guard leave every address
\* an agent of the handle's tree has as it is.
C17_WriteOnce ==
    [][/\ Len(file'.data) >= Len(file.data)
       /\ \A i \in 1..Len(file.data) : file'.data[i] = file.data[i]
       /\ \A h \in Handles :
            \/ CommitStart(h)
            \/ \E k \in Keys : GetInTxn(h, k)
            => KeepsAddrs(tree[h], tree'[h])]_vars

\* C17 witness: store runs on a tree whose loaded root and value agent have
\* addresses from an earlier commit, and the handle's commit is under way with
\* the records of that earlier commit in the file.
C17_Witness ==
    \E h \in Handles :
        /\ hstate[h] = "store" /\ Len(file.data) >= 3
        /\ tree[h] # <<>> /\ Loaded(tree[h][1]) /\ Addressed(tree[h][1])
        /\ tree[h][1].addr[1] < get_write_addr(file)
        /\ Addressed(tree[h][1].inner[1].value_agent)
        /\ get_root_addr(file) = tree[h][1].addr

\* C18: a write through the storage puts its cells at the offset the file
\* ended at, whatever the cursor, and changes no cell the file had; the file's
\* end, which get_write_addr returns, moves on by the number of cells written
\* and is SUPERBLOCK on a file just created; so the address store takes from
\* get_write_addr is where the record it writes is read back.
C18_AppendOnly ==
    /\ [][\A h \in Handles, cells \in Records :
            (\E pos \in Cursors(file) : StWrite(h, pos, cells))
              => /\ \A i \in 1..Len(cells) :
                       CellAt(file', get_write_addr(file) + i - 1) = <<cells[i]>>
                 /\ \A i \in 1..Len(file.data) : file'.data[i] = file.data[i]
                 /\ get_write_addr(file') = get_write_addr(file) + Len(cells)]_vars
    /\ [](file.len > 0 =>
            /\ get_write_addr(file) = SUPERBLOCK + Len(file.data)
            /\ \A v \in Vals :
                 LET r == StringAgentStore(AgentNew(<<v>>, <<>>), file) IN
                 FromReaderString(r.file, r.agent.addr[1]) = [ok |-> TRUE, s |-> v]
            /\ \A k \in Keys, v \in Vals :
                 LET r == store(AgentNew(<<TreeNodeNew(k, v)>>, <<>>), file)
                     n == r.agent.inner[1]
                 IN /\ FromReaderString(r.file, n.value_agent.addr[1]) = [ok |-> TRUE, s |-> v]
                    /\ FromReaderNodeHD(r.file, r.agent.addr[1])
                         = [ok |-> TRUE, hd |-> TreeNodeHDFrom(n)])

\* C18 witness: a value record, then a node record, then a value record were
\* written one after the other on a file that was created with an empty data
\* region, and the file ends after them.
C18_Witness ==
    /\ Len(file.data) = 4
    /\ file.data[1].t = "str" /\ file.data[2].t = "head" /\ file.data[4].t = "str"
    /\ get_write_addr(file) = SUPERBLOCK + 4

C19_LockHandOver ==
    /\ \A b \in Handles : (hstate[b] = "begin") ~> (guard[b] /\ lock = b)
    /\ [][\A h \in Handles :
            hstate[h] = "begin" /\ hstate'[h] # "begin"
                => lock = 0 /\ lock' = h /\ guard'[h]]_vars

\* C19 witness: handle 2 waits in begin while handle 1 is in a transaction
\* with a put not yet committed.
C19_Witness ==
    /\ hstate[2] = "begin" /\ InTxn(1) /\ lock = 1
    /\ tree[1] # <<>> /\ ~Addressed(tree[1][1])

\* C21: the superblock changes only in a step of a handle that holds the
\* exclusive lock with its guard, or in the open that initialises the file
\* under the lock; a handle that is Idle never writes it.
C21_SuperblockUnderLock ==
    [][file'.meta # file.meta
          => \E h \in Handles :
                \/ guard[h] /\ lock = h /\ CommitRoot(h)
                \/ Open(h)]_vars

\* C22: in a commit of a transaction every record is appended while the
\* handle's store is under way and its superblock untouched; the superblock is
\* written when no record of the commit is left to append; the guard goes only
\* after that write; and from the start of the commit until then the handle
\* holds its guard and the lock.
C22_CommitOrder ==
    /\ [](\A h \in Handles : hstate[h] \in {"store", "release"} => guard[h] /\ lock = h)
    /\ [][\A h \in Handles :
            /\ CommitAppend(h) => file'.meta = file.meta /\ hstate'[h] = "store"
            /\ CommitRoot(h) => wbuf[h] = <<>> /\ file'.data = file.data /\ guard'[h]
            /\ guard[h] /\ ~guard'[h] /\ hstate'[h] # "closed"
                 => /\ hstate[h] = "release" /\ hstate'[h] = "ready"
                    /\ file' = file /\ lock' = 0]_vars

\* C22 witness: the commit of a two-node tree has appended its six cells and
\* written the superblock, and the handle still holds its guard and the lock.
C22_Witness ==
    \E h \in Handles :
        /\ hstate[h] = "release" /\ guard[h] /\ lock = h
        /\ Len(file.data) = 6 /\ wbuf[h] = <<>>
        /\ get_root_addr(file) = <<SUPERBLOCK + 4>>

\* Every node's size is 1 + size(left) + size(right), a missing child being 0.
RECURSIVE SizeOK(_)
SizeOK(t) ==
    \/ t = <<>>
    \/ /\ t[1].size = 1 + (IF t[1].left = <<>> THEN 0 ELSE t[1].left[1].size)
                        + (IF t[1].right = <<>> THEN 0 ELSE t[1].right[1].size)
       /\ SizeOK(t[1].left) /\ SizeOK(t[1].right)

\* C23: after any puts and dels, in or out of a transaction, every node
\* reachable from the handle's root has size 1 + size(left) + size(right), and
\* the root's size is the number of keys in the tree.
C23_SizeCorrect ==
    hstate[TreeHandle] = "ready" =>
        LET t == Full(tree[TreeHandle], file) IN
        /\ SizeOK(t)
        /\ t # <<>> => t[1].size = Cardinality(KeysOf(t))
        /\ Count(t) = Cardinality(KeysOf(t))

\* C23 witness: a tree of four keys, the root 2 with both children and 3 as
\* the left child of 4, built by puts of which some were committed.
C23_Witness ==
    /\ hstate[TreeHandle] = "ready" /\ get_root_addr(file) # <<>>
    /\ LET t == Full(tree[TreeHandle], file) IN
       /\ KeysOf(t) = TreeKeys
       /\ t[1].key = 2 /\ t[1].size = 4
       /\ t[1].right[1].key = 4 /\ t[1].right[1].size = 2

\* All keys of a loaded tree lie strictly between lo and hi, every left
\* subtree below its node's key and every right subtree above it.
RECURSIVE Ordered(_, _, _)
Ordered(t, lo, hi) ==
    \/ t = <<>>
    \/ /\ lo < t[1].key /\ t[1].key < hi
       /\ Ordered(t[1].left, lo, t[1].key)
       /\ Ordered(t[1].right, t[1].key, hi)

\* C24: after any puts and dels, deletes of nodes with two children among
\* them, the keys of every left subtree are smaller than the node's key, those
\* of every right subtree larger, and no key is in the tree twice.
C24_BSTOrder ==
    hstate[TreeHandle] = "ready" =>
        LET t == Full(tree[TreeHandle], file) IN
        /\ Ordered(t, 0, 5)
        /\ Count(t) = Cardinality(KeysOf(t))

\* C24 witness: the tree left when 2, the root with children 1 and 4 (3 the
\* left child of 4), was deleted: 3 is the root, 1 and 4 its children.
C24_Witness ==
    /\ hstate[TreeHandle] = "ready" /\ guard[TreeHandle]
    /\ LET t == Full(tree[TreeHandle], file) IN
       /\ KeysOf(t) = {1, 3, 4}
       /\ t[1].key = 3 /\ t[1].left # <<>> /\ t[1].right # <<>>
       /\ t[1].right[1].key = 4 /\ t[1].right[1].left = <<>>

\* The smallest key of a loaded tree that is not empty.
RECURSIVE MinKey(_)
MinKey(t) == IF t[1].left = <<>> THEN t[1].key ELSE MinKey(t[1].left)

\* _delmin seen on loaded trees: a is b without its minimum, every node of
\* b's left spine rewritten with a size one less, the minimum's right subtree
\* in the minimum's place.
RECURSIVE SpineLess(_, _)
SpineLess(b, a) ==
    IF b[1].left = <<>> THEN a = b[1].right
    ELSE /\ a # <<>>
         /\ a[1].key = b[1].key /\ a[1].value = b[1].value
         /\ a[1].size = b[1].size - 1
         /\ a[1].right = b[1].right
         /\ SpineLess(b[1].left, a[1].left)

\* _delete seen on loaded trees: a is b without key, which b holds.  Every
\* node on the path is rewritten with a size one less; a target with at most
\* one child gives way to that child, a target with two children takes the
\* key and value of the right subtree's minimum.
RECURSIVE PathLess(_, _, _)
PathLess(b, a, key) ==
    IF b = <<>> THEN a = <<>>
    ELSE IF key < b[1].key
    THEN /\ a # <<>>
         /\ a[1].key = b[1].key /\ a[1].value = b[1].value
         /\ a[1].size = b[1].size - 1
         /\ a[1].right = b[1].right
         /\ PathLess(b[1].left, a[1].left, key)
    ELSE IF key > b[1].key
    THEN /\ a # <<>>
         /\ a[1].key = b[1].key /\ a[1].value = b[1].value
         /\ a[1].size = b[1].size - 1
         /\ a[1].left = b[1].left
         /\ PathLess(b[1].right, a[1].right, key)
    ELSE IF b[1].left # <<>> /\ b[1].right # <<>>
    THEN /\ a # <<>>
         /\ a[1].key = MinKey(b[1].right)
         /\ a[1].value = ValueOf(b, a[1].key)
         /\ a[1].size = b[1].size - 1
         /\ a[1].left = b[1].left
         /\ SpineLess(b[1].right, a[1].right)
    ELSE IF b[1].left # <<>> THEN a = b[1].left
    ELSE a = b[1].right

\* C25: del of a key the tree holds, whatever the shape of its node: the key
\* is absent afterwards, every other key has the value it had, and every
\* rewritten node on the path, and on the left spine _delmin walks, has a
\* size exactly one less than before.
C25_DeletePresent ==
    hstate[TreeHandle] = "ready" =>
        LET before == Full(begin_view(tree[TreeHandle], guard[TreeHandle], file), file)
        IN  \A k \in KeysOf(before) :
                LET p == del(k, tree[TreeHandle], guard[TreeHandle], file)
                    after == Full(p.root, p.file)
                IN  /\ k \notin KeysOf(after)
                    /\ KeysOf(after) = KeysOf(before) \ {k}
                    /\ \A j \in TreeKeys \ {k} : ValueOf(after, j) = ValueOf(before, j)
                    /\ PathLess(before, after, k)

\* C25 witness: the file holds the root 2 with its right child 4; in the
\* transaction 3 and 1 were put and 2 deleted.  The root is a new node with
\* the key 3 and the value put for 3, over 1 and a rewritten 4 of size 1 that
\* still has the stored value: 4 was never deleted, so 3 came up from under
\* it as the minimum of the right subtree of a node with two children.
C25_Witness ==
    /\ hstate[TreeHandle] = "ready" /\ guard[TreeHandle]
    /\ file.meta.tag = 1
    /\ FromReaderNodeHD(file, file.meta.root_addr).hd.key = 2
    /\ tree[TreeHandle] # <<>>
    /\ LET root == tree[TreeHandle][1] IN
       /\ ~Addressed(root) /\ Loaded(root)
       /\ root.inner[1].key = 3 /\ root.inner[1].size = 3
       /\ ~Addressed(root.inner[1].value_agent)
       /\ root.inner[1].left_agent # <<>>
       /\ Loaded(root.inner[1].left_agent[1])
       /\ root.inner[1].left_agent[1].inner[1].key = 1
       /\ root.inner[1].right_agent # <<>>
       /\ LET r == root.inner[1].right_agent[1] IN
          /\ ~Addressed(r) /\ Loaded(r)
          /\ r.inner[1].key = 4 /\ r.inner[1].size = 1
          /\ r.inner[1].left_agent = <<>>
          /\ Addressed(r.inner[1].value_agent)

\* Every node agent under an optional agent has an address: none of them was
\* allocated since the last store.
RECURSIVE AllAddressed(_)
AllAddressed(agent) ==
    agent # <<>> =>
        /\ Addressed(agent[1])
        /\ Loaded(agent[1]) =>
              /\ AllAddressed(agent[1].inner[1].left_agent)
              /\ AllAddressed(agent[1].inner[1].right_agent)

\* new is the agent old, and the agents under it are those under old: the
\* same addresses, and where old is loaded the same key, size, value agent
\* and children.  An agent that old has not loaded can be loaded in new, from
\* its address.
RECURSIVE SameAgent(_, _)
SameAgent(old, new) ==
    IF old = <<>> THEN new = <<>>
    ELSE /\ new # <<>>
         /\ new[1].addr = old[1].addr
         /\ IF Loaded(old[1])
            THEN /\ Loaded(new[1])
                 /\ LET o == old[1].inner[1]
                        n == new[1].inner[1]
                    IN /\ n.key = o.key /\ n.size = o.size
                       /\ n.value_agent = o.value_agent
                       /\ SameAgent(o.left_agent, n.left_agent)
                       /\ SameAgent(o.right_agent, n.right_agent)
            ELSE AllAddressed(new)

\* C26: del of a key the tree does not hold leaves the tree as it is: the
\* root is the agent it was, no node agent is allocated, no size changes,
\* every key has the answer it had, and the file is not written.
C26_DeleteAbsent ==
    hstate[TreeHandle] = "ready" =>
        LET view == begin_view(tree[TreeHandle], guard[TreeHandle], file)
            before == Full(view, file)
        IN  \A k \in TreeKeys \ KeysOf(before) :
                LET p == del(k, tree[TreeHandle], guard[TreeHandle], file)
                IN  /\ SameAgent(view, p.root)
                    /\ Full(p.root, p.file) = before
                    /\ p.file = file

\* C26 witness: in a transaction on the stored tree of 2 and its right child
\* 4, del of the absent key 3 has walked from the root to 4: both are loaded
\* and still have their addresses and sizes, and the file ends with the
\* root's record.
C26_Witness ==
    /\ hstate[TreeHandle] = "ready" /\ guard[TreeHandle]
    /\ tree[TreeHandle] # <<>>
    /\ LET root == tree[TreeHandle][1] IN
       /\ Loaded(root) /\ root.addr = get_root_addr(file)
       /\ root.addr = <<get_write_addr(file) - 2>>
       /\ root.inner[1].key = 2 /\ root.inner[1].size = 2
       /\ root.inner[1].left_agent = <<>>
       /\ root.inner[1].right_agent # <<>>
       /\ LET r == root.inner[1].right_agent[1] IN
          /\ Loaded(r) /\ Addressed(r)
          /\ r.inner[1].key = 4 /\ r.inner[1].size = 1
          /\ r.inner[1].left_agent = <<>> /\ r.inner[1].right_agent = <<>>

\* The loaded tree t with the value of a key it holds replaced.
RECURSIVE Replaced(_, _, _)
Replaced(t, key, value) ==
    IF t = <<>> THEN <<>>
    ELSE IF key < t[1].key
    THEN <<[t[1] EXCEPT !.left = Replaced(t[1].left, key, value)]>>
    ELSE IF key > t[1].key
    THEN <<[t[1] EXCEPT !.right = Replaced(t[1].right, key, value)]>>
    ELSE <<[t[1] EXCEPT !.value = <<value>>]>>

\* C27: put of a key the tree holds replaces the key's value, in a value
\* agent made by this put, and reports a size delta of 0: every node, the
\* root among them, has the size it had, and no other key or value changes.
C27_PutExisting ==
    hstate[TreeHandle] = "ready" =>
        LET view == begin_view(tree[TreeHandle], guard[TreeHandle], file)
            before == Full(view, file)
        IN  \A k \in KeysOf(before), v \in Vals :
                LET p == put(k, v, tree[TreeHandle], guard[TreeHandle], file)
                    after == Full(p.root, p.file)
                    va == ValueAgentOf(k, p.root)
                IN  /\ _insert(k, v, view, file).delta = 0
                    /\ after = Replaced(before, k, v)
                    /\ \A j \in TreeKeys : SizeAt(after, j) = SizeAt(before, j)
                    /\ va.inner = <<v>>
                    /\ IF guard[TreeHandle] THEN ~Addressed(va)
                       ELSE va.addr[1] >= get_write_addr(file)

\* C27 witness: the file holds the root 2 with the value 1 and its right
\* child 4; in the transaction 2 was put again with the value 2.  The root is
\* a new node of size 2 with a new value agent, over the stored agent of 4.
C27_Witness ==
    /\ hstate[TreeHandle] = "ready" /\ guard[TreeHandle]
    /\ DiskAnswer(2).value = <<1>>
    /\ tree[TreeHandle] # <<>>
    /\ LET root == tree[TreeHandle][1] IN
       /\ ~Addressed(root) /\ Loaded(root)
       /\ root.inner[1].key = 2 /\ root.inner[1].size = 2
       /\ root.inner[1].value_agent = AgentNew(<<2>>, <<>>)
       /\ root.inner[1].left_agent = <<>>
       /\ root.inner[1].right_agent # <<>>
       /\ Addressed(root.inner[1].right_agent[1])
       /\ Full(root.inner[1].right_agent, file)[1].key = 4

\* A node agent made by the running call: loaded, without an address.
NewAgent(agent) == agent # <<>> /\ Loaded(agent[1]) /\ ~Addressed(agent[1])

\* The agent new is a copy of the path of _insert in old: a new agent for
\* every node from the root to the key's place, the value agent and the
\* subtree off the path the agents that old has, the key and, below the last
\* node of old, a new leaf.
RECURSIVE InsertCopied(_, _, _, _)
InsertCopied(old, new, key, f) ==
    /\ NewAgent(new)
    /\ LET n == new[1].inner[1] IN
       IF old = <<>>
       THEN n.key = key /\ n.left_agent = <<>> /\ n.right_agent = <<>>
       ELSE LET o == load(old[1], f).agent.inner[1] IN
            /\ n.key = o.key
            /\ IF key < o.key
               THEN /\ n.value_agent = o.value_agent
                    /\ n.right_agent = o.right_agent
                    /\ InsertCopied(o.left_agent, n.left_agent, key, f)
               ELSE IF key > o.key
               THEN /\ n.value_agent = o.value_agent
                    /\ n.left_agent = o.left_agent
                    /\ InsertCopied(o.right_agent, n.right_agent, key, f)
               ELSE /\ n.left_agent = o.left_agent
                    /\ n.right_agent = o.right_agent

\* The agent new is a copy of the left spine of old down to its minimum's
\* parent: the minimum's right subtree stands where the minimum was.
RECURSIVE SpineCopied(_, _, _)
SpineCopied(old, new, f) ==
    LET o == load(old[1], f).agent.inner[1] IN
    IF o.left_agent = <<>> THEN new = o.right_agent
    ELSE /\ NewAgent(new)
         /\ LET n == new[1].inner[1] IN
            /\ n.key = o.key
            /\ n.value_agent = o.value_agent
            /\ n.right_agent = o.right_agent
            /\ SpineCopied(o.left_agent, n.left_agent, f)

\* The agent new is a copy of the path of _delete in old, which holds the
\* key: a new agent for every node from the root to the key's node, and for
\* a node with two children also down the left spine of its right subtree;
\* every subtree off the path is the agent that old has.
RECURSIVE DeleteCopied(_, _, _, _)
DeleteCopied(old, new, key, f) ==
    LET o == load(old[1], f).agent.inner[1] IN
    IF key < o.key
    THEN /\ NewAgent(new)
         /\ new[1].inner[1].key = o.key
         /\ new[1].inner[1].value_agent = o.value_agent
         /\ new[1].inner[1].right_agent = o.right_agent
         /\ DeleteCopied(o.left_agent, new[1].inner[1].left_agent, key, f)
    ELSE IF key > o.key
    THEN /\ NewAgent(new)
         /\ new[1].inner[1].key = o.key
         /\ new[1].inner[1].value_agent = o.value_agent
         /\ new[1].inner[1].left_agent = o.left_agent
         /\ DeleteCopied(o.right_agent, new[1].inner[1].right_agent, key, f)
    ELSE IF o.left_agent # <<>> /\ o.right_agent # <<>>
    THEN /\ NewAgent(new)
         /\ new[1].inner[1].left_agent = o.left_agent
         /\ SpineCopied(o.right_agent, new[1].inner[1].right_agent, f)
    ELSE IF o.left_agent # <<>> THEN new = o.left_agent
    ELSE new = o.right_agent

\* C28: path copying.  insert and delete make new agents without an address
\* for the nodes on the path from the root to the affected node, and delete
\* of a node with two children also for the left spine _delmin walks; every
\* other subtree of the new root is the agent the previous root has, and the
\* previous root, which no step of the call has changed, answers every find
\* as before, also on the file the call leaves.
C28_PathCopying ==
    hstate[TreeHandle] = "ready" =>
        LET view == begin_view(tree[TreeHandle], guard[TreeHandle], file)
            before == Full(view, file)
        IN  /\ \A k \in TreeKeys, v \in Vals :
                  LET r == insert(k, v, view, file)
                      p == put(k, v, tree[TreeHandle], guard[TreeHandle], file)
                  IN  /\ r.ok /\ InsertCopied(view, r.root, k, file)
                      /\ Full(view, p.file) = before
                      /\ \A j \in TreeKeys :
                            find(j, view, p.file).value = find(j, view, file).value
            /\ \A k \in KeysOf(before) :
                  LET r == delete(k, view, file)
                      p == del(k, tree[TreeHandle], guard[TreeHandle], file)
                  IN  /\ r.ok /\ DeleteCopied(view, r.root, k, file)
                      /\ Full(view, p.file) = before
                      /\ \A j \in TreeKeys :
                            find(j, view, p.file).value = find(j, view, file).value

\* C28 witness: the file holds the root 2 with its right child 4; in the
\* transaction 1 was put.  The root and the node of 1 are new agents, and
\* the right child of the root is the agent of the stored view, with its
\* address and not loaded.
C28_Witness ==
    /\ hstate[TreeHandle] = "ready" /\ guard[TreeHandle]
    /\ get_root_addr(file) = <<get_write_addr(file) - 2>>
    /\ NewAgent(tree[TreeHandle])
    /\ LET n == tree[TreeHandle][1].inner[1] IN
       /\ n.key = 2 /\ n.size = 3
       /\ Addressed(n.value_agent)
       /\ NewAgent(n.left_agent)
       /\ n.left_agent[1].inner[1].key = 1
       /\ n.right_agent # <<>>
       /\ n.right_agent = load(change_view(get_root_addr(file)[1])[1], file).agent.inner[1].right_agent
       /\ ~Loaded(n.right_agent[1])

\* An address a record at offset own may hold for a record written before it.
Before(addr, own) == addr # <<>> => SUPERBLOCK <= addr[1] /\ addr[1] < own

\* C29: children before parent.  Every node record in the file has a value
\* address, and its value, left and right addresses are at least SUPERBLOCK
\* and strictly smaller than the record's own offset.
C29_ChildrenBeforeParent ==
    \A own \in SUPERBLOCK..(get_write_addr(file) - 2) :
        LET r == FromReaderNodeHD(file, own) IN
        r.ok => /\ r.hd.value_addr # <<>>
                /\ Before(r.hd.value_addr, own)
                /\ Before(r.hd.left_addr, own)
                /\ Before(r.hd.right_addr, own)

\* The node agents under an optional agent, as far as they are loaded.
RECURSIVE AgentsOf(_)
AgentsOf(agent) ==
    IF agent = <<>> THEN {}
    ELSE {agent[1]} \cup
         IF Loaded(agent[1])
         THEN AgentsOf(agent[1].inner[1].left_agent)
                  \cup AgentsOf(agent[1].inner[1].right_agent)
         ELSE {}

\* C30: store is idempotent.  On an agent that has an address, node agent or
\* value agent, store appends nothing and keeps the address; a store leaves
\* every agent it has walked with an address, so a second store of its
\* result, and a second commit with no put or del after the first, leave the
\* data region and the agents as the first left them.
C30_StoreIdempotent ==
    hstate[TreeHandle] = "ready" =>
        LET root == tree[TreeHandle]
            s1 == tree_store(root, file)
            s2 == tree_store(s1.root, s1.file)
            c1 == commit(root, file)
            c2 == commit(c1.root, c1.file)
        IN  /\ \A a \in AgentsOf(root) :
                  /\ Addressed(a) => store(a, file) = [agent |-> a, file |-> file]
                  /\ Loaded(a) /\ Addressed(a.inner[1].value_agent)
                       => StringAgentStore(a.inner[1].value_agent, file)
                             = [agent |-> a.inner[1].value_agent, file |-> file]
            /\ KeepsAddrs(root, s1.root)
            /\ \A a \in AgentsOf(s1.root) : Addressed(a)
            /\ s2 = s1
            /\ c2.file.data = c1.file.data /\ c2.root = c1.root

\* C30 witness: a first commit stored the key 2, a put of 2 from Idle stored
\* a new value and a new root after it, and the handle is Idle with that
\* root, loaded and with its address, at hand for a commit with no put or del
\* before it.
C30_Witness ==
    /\ hstate[TreeHandle] = "ready" /\ ~guard[TreeHandle]
    /\ Len(file.data) = 6
    /\ tree[TreeHandle] # <<>>
    /\ LET root == tree[TreeHandle][1] IN
       /\ Loaded(root) /\ root.addr = <<get_write_addr(file) - 2>>
       /\ root.addr = get_root_addr(file)
       /\ root.inner[1].key = 2 /\ root.inner[1].size = 1
       /\ root.inner[1].value_agent.addr = <<get_write_addr(file) - 3>>
       /\ FromReaderNodeHD(file, SUPERBLOCK + 1).hd.key = 2

\* Every agent under an optional node agent that has an address has its
\* complete record at that address: a node record for a node agent, a string
\* record for a value agent.
RECURSIVE Recorded(_, _)
Recorded(agent, f) ==
    agent # <<>> =>
        /\ Addressed(agent[1]) => FromReaderNodeHD(f, agent[1].addr[1]).ok
        /\ Loaded(agent[1]) =>
              LET node == agent[1].inner[1] IN
              /\ Addressed(node.value_agent)
                    => FromReaderString(f, node.value_agent.addr[1]).ok
              /\ Recorded(node.left_agent, f)
              /\ Recorded(node.right_agent, f)

\* C31: an agent has an address only when its record is written.  Whenever
\* a handle is back from a call, commit returned with an error included, no
\* agent of its tree quotes an address where no complete record stands, so
\* that the next store writes the agents whose write failed.
C31_AddressAfterWrite ==
    \A h \in Handles : hstate[h] = "ready" => Recorded(tree[h], file)

\* The steps of ensure_superblock, from the lock taken to the lock let go.
InEnsure(h) == hstate[h] \in {"opening", "fill", "root", "opened"}

\* C32: concurrent creators.  Whatever the interleaving of the opens of the
\* handles on the new file, the length check and the initialisation of each
\* run with the lock held by that handle alone; the zero fill runs on the
\* empty file only, which it leaves SUPERBLOCK bytes long, so it runs once;
\* and when an open has returned the file is SUPERBLOCK bytes long with every
\* record after them, with no root address while no record is written.
C32_ConcurrentCreators ==
    /\ [](\A h \in Handles :
            /\ InEnsure(h) => lock = h
            /\ hstate[h] \in {"view", "ready"} =>
                  /\ file.len = SUPERBLOCK + Len(file.data)
                  /\ file.data = <<>> => get_root_addr(file) = <<>>)
    /\ [][\A h \in Handles :
            /\ OpenFill(h) => file.len = 0 /\ file'.len = SUPERBLOCK
            /\ OpenRoot(h) => file.len = SUPERBLOCK /\ file.data = <<>>
                                /\ get_root_addr(file') = <<>>]_vars

\* C32 witness: both handles have opened the new file, none has stopped on
\* the way and none has written a record: the file is SUPERBLOCK bytes long.
C32_Witness ==
    /\ \A h \in Handles : hstate[h] = "ready" /\ ~guard[h]
    /\ crashes = 0
    /\ file.len = SUPERBLOCK /\ file.data = <<>>
    /\ get_root_addr(file) = <<>>

\* C33: open of a file shorter than SUPERBLOCK, whatever its length, leaves
\* it exactly SUPERBLOCK bytes long, so that the first record appended gets
\* the address SUPERBLOCK, and with no root address; open of a file of
\* SUPERBLOCK bytes or more changes nothing.
C33_ShortFile ==
    [][\A h \in Handles :
          Open(h) =>
              IF file.len < SUPERBLOCK
              THEN /\ file'.len = SUPERBLOCK
                   /\ get_write_addr(file') = SUPERBLOCK
                   /\ get_root_addr(file') = <<>>
              ELSE file' = file]_vars

\* The number of cells store appends for the agents under an optional agent:
\* two for every loaded node agent without an address, one for its value
\* agent when that has none; nothing below an agent that has an address.
RECURSIVE CellsToStore(_)
CellsToStore(agent) ==
    IF agent = <<>> \/ ~Loaded(agent[1]) \/ Addressed(agent[1]) THEN 0
    ELSE LET node == agent[1].inner[1] IN
         2 + (IF Addressed(node.value_agent) THEN 0 ELSE 1)
           + CellsToStore(node.left_agent) + CellsToStore(node.right_agent)

\* C34: under the guard put and del leave the file as it is, its length and
\* its superblock included; commit appends the records of the agents without
\* an address that the root reaches when it runs, each once, and nothing
\* else, so no record of a node version that a later put or del of the
\* transaction has replaced is ever written.
C34_TxnWritesNothing ==
    InTxn(TreeHandle) =>
        LET root == tree[TreeHandle]
            c == commit(root, file)
        IN  /\ \A k \in TreeKeys :
                  /\ del(k, root, TRUE, file).file = file
                  /\ \A v \in Vals : put(k, v, root, TRUE, file).file = file
            /\ Len(c.file.data) = Len(file.data) + CellsToStore(root)
            /\ SubSeq(c.file.data, 1, Len(file.data)) = file.data
            /\ Full(c.root, c.file) = Full(root, file)

\* C34 witness: the keys 3 and 1 were put under the guard on the new file:
\* the tree holds both in agents without an address, six cells for commit to
\* append, and the file has its superblock and no record.
C34_Witness ==
    /\ InTxn(TreeHandle)
    /\ file.len = SUPERBLOCK /\ file.data = <<>> /\ get_root_addr(file) = <<>>
    /\ LET t == Full(tree[TreeHandle], file) IN
       /\ KeysOf(t) = {1, 3}
       /\ t[1].key = 3 /\ t[1].size = 2
       /\ CellsToStore(tree[TreeHandle]) = 6

\* C35: a commit that returns an error, and a put or del from Idle that
\* returns one, leave the handle with its guard and the lock: the guard is
\* dropped only where commit returns Ok or the handle is dropped, and until
\* then no begin of another handle returns.
C35_ErrorKeepsLock ==
    /\ [](\A h \in Handles : guard[h] => lock = h)
    /\ [][\A h \in Handles :
            /\ CommitFail(h) => InTxn(h)' /\ lock' = h
            /\ Idle(h) /\ guard'[h] /\ hstate'[h] = "ready"
                  /\ (\E k \in Keys : DelStep(h, k) \/ \E v \in Vals : PutStep(h, k, v))
                  => lock' = h
            /\ guard[h] /\ ~guard'[h] => CommitRelease(h) \/ Drop(h)
            /\ lock = h /\ guard[h] /\ lock' # h => CommitRelease(h) \/ Drop(h)
            /\ ~guard[h] /\ guard'[h] => lock = 0]_vars

\* C35 witness: the commit of handle 1 has returned an error after its value
\* record was written; handle 1 has its guard and the lock, its root without
\* an address, and handle 2 is open and Idle.
C35_Witness ==
    /\ crashes = 1
    /\ InTxn(1) /\ lock = 1
    /\ hstate[2] = "ready" /\ ~guard[2]
    /\ wbuf[1] = <<>>
    /\ tree[1] # <<>> /\ Loaded(tree[1][1]) /\ ~Addressed(tree[1][1])
    /\ tree[1][1].inner[1].value_agent.addr = <<get_write_addr(file) - 1>>

\* C36: once the superblock holds a root address it holds one for ever.  A
\* step that changes the superblock writes an address, the address of the
\* root of the committing handle's tree, which has one; begin changes the
\* handle's root only into the view of the address the superblock holds; and
\* no step of begin, put, del or commit writes the empty superblock.
C36_RootStays ==
    [][/\ get_root_addr(file) # <<>> => get_root_addr(file') # <<>>
       /\ file'.meta # file.meta => get_root_addr(file') # <<>>
       /\ \A h \in Handles :
            /\ (CommitRoot(h) \/ CommitIdle(h)) /\ file'.meta # file.meta
                  => tree[h] # <<>> /\ get_root_addr(file') = tree[h][1].addr
            /\ (CommitRoot(h) \/ CommitIdle(h)) /\ tree[h] = <<>> => file' = file
            /\ Begin(h) /\ tree'[h] # tree[h]
                  => /\ get_root_addr(file) # <<>>
                     /\ tree'[h] = change_view(get_root_addr(file)[1])]_vars

\* C36 witness: a handle has deleted the only key of the stored tree and its
\* commit, with the empty tree, is past the superblock step: the superblock
\* holds the root it held.
C36_Witness ==
    \E h \in Handles :
        /\ hstate[h] = "release" /\ guard[h]
        /\ tree[h] = <<>>
        /\ get_root_addr(file) # <<>>
        /\ WellWritten(get_root_addr(file)[1], file)

====
